---- MODULE Spec2Model ----
(***************************************************************************)
(* Model of the markdown code-block extraction and file-materialization    *)
(* engine of the software development agent: src/utils.py,                 *)
(* src/agent/agent.py and src/agent/workflows/software_dev_workflow.py.    *)
(*                                                                         *)
(* A Python str is modelled as a sequence of one-character strings, so     *)
(* that split, join, strip and startswith are computed character by        *)
(* character as the library computes them.                                 *)
(***************************************************************************)
EXTENDS Integers, Sequences, FiniteSets, TLC

VARIABLES
    pc,           \* where the scenario stands
    markdown,     \* the document given to extract_code_from_markdown
    fmt,          \* the arguments of format_code_for_llm
    code_blocks,  \* the blocks extracted
    reextracted,  \* the blocks extracted from the re-joined blocks
    entry,        \* the entry point of the generation pass
    response,     \* the response of the generation pass
    disk,         \* the filesystem
    ordinal,      \* the 0-based ordinal of the next block of the pass
    trace,        \* per block handled: the locals of its loop iteration
    body,         \* the code given to clean_code
    sanitized,    \* what clean_code returned, call after call
    file_name,    \* the file of the per-file generation stage
    generated,    \* what generate_code returned for that file
    history,      \* self.history of the agent
    messages,     \* the messages of the last call of the model
    state,        \* the WorkflowState of the staged workflow
    ran,          \* the stages of the staged workflow run so far, in order
    running,      \* which of two generation passes takes the next step
    passes,       \* per generation pass: its response, blocks and position
    env,          \* what the host answers to the tester and to run_in_docker
    calls,        \* the commands and container operations issued, in order
    result        \* what python_runner_tester or run_in_docker returned

vars ==
    <<pc, markdown, fmt, code_blocks, reextracted, entry, response, disk, ordinal,
      trace, body, sanitized, file_name, generated, history, messages, state, ran,
      running, passes, env, calls, result>>

passVars == <<entry, response, disk, ordinal, trace>>

cleanVars == <<body, sanitized>>

stageVars == <<file_name, generated>>

agentVars == <<history, messages>>

graphVars == <<state, ran>>

twoVars == <<running, passes>>

hostVars == <<env, calls, result>>

laterVars == <<agentVars, graphVars, twoVars, hostVars>>

\* the agent, the staged workflow, the second pass and the host are idle
LaterIdle ==
    /\ history = <<>>
    /\ messages = <<>>
    /\ state = <<>>
    /\ ran = <<>>
    /\ running = 1
    /\ passes = <<>>
    /\ env = <<>>
    /\ calls = <<>>
    /\ result = <<>>

----------------------------------------------------------------------------
(* Python str primitives                                                   *)

NL == "\n"

\* the backquote character
BQ == "backquote"

\* the path separator
Sep == "/"

\* the characters str.strip() removes (those of them the documents use)
Whitespace == {" ", "\t", "\n"}

StartsWith(s, p) ==
    /\ Len(s) >= Len(p)
    /\ SubSeq(s, 1, Len(p)) = p

\* s[n:] for a 0-based n
From(s, n) == SubSeq(s, n + 1, Len(s))

RECURSIVE LStrip(_)
LStrip(s) ==
    IF s # <<>> /\ Head(s) \in Whitespace THEN LStrip(Tail(s)) ELSE s

RECURSIVE RStrip(_)
RStrip(s) ==
    IF s # <<>> /\ s[Len(s)] \in Whitespace
    THEN RStrip(SubSeq(s, 1, Len(s) - 1))
    ELSE s

Strip(s) == LStrip(RStrip(s))

\* index of the first sep at or after position p, Len(s) + 1 when none
RECURSIVE FindChar(_, _, _)
FindChar(s, sep, p) ==
    IF p > Len(s) THEN p
    ELSE IF s[p] = sep THEN p
    ELSE FindChar(s, sep, p + 1)

\* s.split(sep): always at least one piece, "" splits into [""]
RECURSIVE Split(_, _)
Split(s, sep) ==
    LET p == FindChar(s, sep, 1)
    IN  IF p > Len(s) THEN <<s>>
        ELSE <<SubSeq(s, 1, p - 1)>> \o Split(SubSeq(s, p + 1, Len(s)), sep)

\* sep.join(pieces): "" for an empty list
RECURSIVE Join(_, _)
Join(pieces, sep) ==
    IF pieces = <<>> THEN <<>>
    ELSE IF Len(pieces) = 1 THEN pieces[1]
    ELSE pieces[1] \o <<sep>> \o Join(Tail(pieces), sep)

----------------------------------------------------------------------------
(* src/utils.py: the Markdown Block Extractor                              *)

FenceMarker == <<BQ, BQ, BQ>>

\* line.startswith(fence marker)
IsFenceLine(line) == StartsWith(line, FenceMarker)

\* line[3:].strip()
LanguageTag_NoStrip(line) == From(line, 3)

LanguageTag(line) == Strip(From(line, 3))

\* the inner loop with its bound off by one: the last line is never a body line
RECURSIVE ScanBody_StopsEarly(_, _)
ScanBody_StopsEarly(lines, j) ==
    IF j < Len(lines) /\ ~IsFenceLine(lines[j])
    THEN ScanBody_StopsEarly(lines, j + 1)
    ELSE j

\* the inner while loop: first index at or after j holding a fence line,
\* Len(lines) + 1 when the input ends first
RECURSIVE ScanBody(_, _)
ScanBody(lines, j) ==
    IF j <= Len(lines) /\ ~IsFenceLine(lines[j])
    THEN ScanBody(lines, j + 1)
    ELSE j

\* the closing fence left in place, to be read again by the outer loop
SkipClosing_NoSkip(lines, j) == j

\* where the outer loop continues after a block whose body ended at j
SkipClosing(lines, j) == IF j <= Len(lines) THEN j + 1 ELSE j

\* the outer while loop, i is the 1-based index of the current line
RECURSIVE ExtractLoop(_, _, _)
ExtractLoop(lines, i, blocks) ==
    IF i > Len(lines) THEN blocks
    ELSE IF IsFenceLine(lines[i])
    THEN LET language == LanguageTag(lines[i])
             j == ScanBody(lines, i + 1)
             code_lines == SubSeq(lines, i + 1, j - 1)
         IN  ExtractLoop(lines, SkipClosing(lines, j),
                 Append(blocks, [language |-> language,
                                 code |-> Join(code_lines, NL)]))
    ELSE ExtractLoop(lines, i + 1, blocks)

extract_code_from_markdown(md) == ExtractLoop(Split(md, NL), 1, <<>>)

\* the closing marker glued to the last line of the code
format_code_for_llm_NoNewline(code, language) ==
    FenceMarker \o language \o <<NL>> \o code \o FenceMarker

format_code_for_llm(code, language) ==
    FenceMarker \o language \o <<NL>> \o code \o <<NL>> \o FenceMarker

----------------------------------------------------------------------------
(* Python re: the patterns of the filename resolver, matched character by  *)
(* character.  In every pattern the characters a greedy element gives up   *)
(* on backtracking cannot start the next element, so the greedy match is   *)
(* the only candidate at a position.                                       *)

ToLower ==
    [A |-> "a", B |-> "b", C |-> "c", D |-> "d", E |-> "e", F |-> "f",
     G |-> "g", H |-> "h", I |-> "i", J |-> "j", K |-> "k", L |-> "l",
     M |-> "m", N |-> "n", O |-> "o", P |-> "p", Q |-> "q", R |-> "r",
     S |-> "s", T |-> "t", U |-> "u", V |-> "v", W |-> "w", X |-> "x",
     Y |-> "y", Z |-> "z"]

\* str.lower() of one character
LowerChar(c) == IF c \in DOMAIN ToLower THEN ToLower[c] ELSE c

\* str.lower()
Lower(s) == [n \in 1..Len(s) |-> LowerChar(s[n])]

\* the character class [a-zA-Z0-9_\-\.\/]
FileChars ==
    {"a", "b", "c", "d", "e", "f", "g", "h", "i", "j", "k", "l", "m", "n",
     "o", "p", "q", "r", "s", "t", "u", "v", "w", "x", "y", "z"}
    \cup DOMAIN ToLower
    \cup {"0", "1", "2", "3", "4", "5", "6", "7", "8", "9"}
    \cup {"_", "-", ".", "/"}

Quotes == {"'", "\""}

\* a literal of a pattern at position pos of s (ic: re.IGNORECASE)
LitAt(lit, s, pos, ic) ==
    /\ pos + Len(lit) - 1 <= Len(s)
    /\ \A n \in 1..Len(lit) :
          (IF ic THEN LowerChar(s[pos + n - 1]) ELSE s[pos + n - 1]) = lit[n]

\* first position at or after pos whose character is outside chars
RECURSIVE RunEnd(_, _, _)
RunEnd(s, pos, chars) ==
    IF pos <= Len(s) /\ s[pos] \in chars
    THEN RunEnd(s, pos + 1, chars)
    ELSE pos

\* first position at or after pos where lit occurs, 0 when none
FindLit(lit, s, pos) ==
    LET hits == { p \in pos..Len(s) : LitAt(lit, s, p, FALSE) }
    IN  IF hits = {} THEN 0 ELSE CHOOSE p \in hits : \A q \in hits : p <= q

\* s contains sub (the Python "in" on strings)
Contains(s, sub) == FindLit(sub, s, 1) # 0

\* index of the last Sep of p, 0 when none
RECURSIVE RFindSep(_, _)
RFindSep(p, n) ==
    IF n = 0 THEN 0
    ELSE IF p[n] = Sep THEN n
    ELSE RFindSep(p, n - 1)

NoMatch == [ok |-> FALSE, start |-> 0, end |-> 0, group |-> <<>>]

\* the first alternative of alts that occurs at pos, 0 when none
RECURSIVE FirstAlt(_, _, _, _, _)
FirstAlt(alts, a, s, pos, ic) ==
    IF a > Len(alts) THEN 0
    ELSE IF LitAt(alts[a], s, pos, ic) THEN a
    ELSE FirstAlt(alts, a + 1, s, pos, ic)

\* match the elements k.. of pattern pat at position pos; the match started
\* at position start and has captured grp so far
RECURSIVE MatchFrom(_, _, _, _, _, _)
MatchFrom(pat, k, s, start, pos, grp) ==
    IF k > Len(pat)
    THEN [ok |-> TRUE, start |-> start, end |-> pos, group |-> grp]
    ELSE LET e == pat[k]
         IN  CASE e.kind = "lit" ->
                    LET a == FirstAlt(e.alts, 1, s, pos, e.ic)
                    IN  IF a = 0 THEN NoMatch
                        ELSE MatchFrom(pat, k + 1, s, start,
                                       pos + Len(e.alts[a]), grp)
               [] e.kind = "optlit" ->
                    LET a == FirstAlt(e.alts, 1, s, pos, e.ic)
                    IN  MatchFrom(pat, k + 1, s, start,
                                  IF a = 0 THEN pos ELSE pos + Len(e.alts[a]),
                                  grp)
               [] e.kind = "opt" ->
                    MatchFrom(pat, k + 1, s, start,
                              IF pos <= Len(s) /\ s[pos] \in e.chars
                              THEN pos + 1 ELSE pos, grp)
               [] e.kind = "star" ->
                    MatchFrom(pat, k + 1, s, start, RunEnd(s, pos, e.chars), grp)
               [] e.kind = "group" ->
                    LET r == RunEnd(s, pos, FileChars)
                    IN  IF r = pos THEN NoMatch
                        ELSE MatchFrom(pat, k + 1, s, start, r,
                                       SubSeq(s, pos, r - 1))
               [] e.kind = "group_sep" ->
                    \* the class, greedy, then a separator: the run gives back
                    \* characters until the one given back is a separator
                    LET r == RunEnd(s, pos, FileChars)
                        q == RFindSep(SubSeq(s, 1, r - 1), r - 1)
                    IN  IF q <= pos THEN NoMatch
                        ELSE MatchFrom(pat, k + 1, s, start, q + 1,
                                       SubSeq(s, pos, q - 1))
               [] e.kind = "until" ->
                    \* a lazy .* with DOTALL, then the literal
                    LET q == FindLit(e.lit, s, pos)
                    IN  IF q = 0 THEN NoMatch
                        ELSE MatchFrom(pat, k + 1, s, start, q + Len(e.lit), grp)

\* the positions of s at which pat matches
MatchStarts(pat, s) ==
    { p \in 1..Len(s) : MatchFrom(pat, 1, s, p, p, <<>>).ok }

Min(S) == CHOOSE x \in S : \A y \in S : x <= y

\* the matches that start at the positions starts, from pos on, each match
\* beginning where the scan first finds one after the end of the previous
RECURSIVE FindIterFrom(_, _, _, _)
FindIterFrom(pat, s, starts, pos) ==
    LET later == { p \in starts : p >= pos }
    IN  IF later = {} THEN <<>>
        ELSE LET m == MatchFrom(pat, 1, s, Min(later), Min(later), <<>>)
             IN  <<m>> \o FindIterFrom(pat, s, starts, m.end)

\* re.finditer(pat, s): the non-overlapping matches from left to right
FindIter(pat, s) == FindIterFrom(pat, s, MatchStarts(pat, s), 1)

\* re.search(pat, s): the leftmost match
Search(pat, s) ==
    LET starts == MatchStarts(pat, s)
    IN  IF starts = {} THEN NoMatch
        ELSE MatchFrom(pat, 1, s, Min(starts), Min(starts), <<>>)

Lit(alts) == [kind |-> "lit", alts |-> alts, ic |-> TRUE]
OptQuote == [kind |-> "opt", chars |-> Quotes]
OptColon == [kind |-> "opt", chars |-> {":"}]
Spaces == [kind |-> "star", chars |-> Whitespace]
Group == [kind |-> "group"]

ThisOrTheCode ==
    Lit(<< <<"t", "h", "i", "s">>, <<"t", "h", "e", " ", "c", "o", "d", "e">> >>)

\* the patterns list of SoftwareDevelopmentAgent._extract_filename_from_content
AgentPatterns ==
    << << Lit(<< <<"s", "a", "v", "e", " ">> >>), ThisOrTheCode, Lit(<< <<" ">> >>),
          Lit(<< <<"t", "o">>, <<"a", "s">> >>), Lit(<< <<" ">> >>),
          OptQuote, Group, OptQuote >>,
       << Lit(<< <<"c", "r", "e", "a", "t", "e", " ", "a", " ", "f", "i", "l", "e", " ">> >>),
          Lit(<< <<"n", "a", "m", "e", "d">>, <<"c", "a", "l", "l", "e", "d">> >>),
          Lit(<< <<" ">> >>), OptQuote, Group, OptQuote >>,
       << Lit(<< <<"f", "i", "l", "e", "n", "a", "m", "e">> >>), OptColon, Spaces,
          OptQuote, Group, OptQuote >>,
       << Lit(<< <<"f", "i", "l", "e">> >>), OptColon, Spaces,
          OptQuote, Group, OptQuote >>,
       << Lit(<< <<"s", "a", "v", "e", " ">> >>), ThisOrTheCode,
          Lit(<< <<" ", "i", "n", " ">> >>), OptQuote, Group, OptQuote >>,
       << Lit(<< <<"n", "a", "m", "e", " ", "t", "h", "e", " ", "f", "i", "l", "e", " ">> >>),
          OptQuote, Group, OptQuote >>,
       << Lit(<< <<BQ>> >>), Group, Lit(<< <<BQ>> >>) >> >>

\* the patterns list of extract_filename_from_content of the single-call
\* workflow: as above, with one literal blank after the label
WorkflowPatterns ==
    [AgentPatterns EXCEPT
       ![3] = << Lit(<< <<"f", "i", "l", "e", "n", "a", "m", "e">> >>), OptColon,
                 Lit(<< <<" ">> >>), OptQuote, Group, OptQuote >>,
       ![4] = << Lit(<< <<"f", "i", "l", "e">> >>), OptColon,
                 Lit(<< <<" ">> >>), OptQuote, Group, OptQuote >>]

\* a resolver that found nothing returns None
NoName == <<>>

\* re.sub of a leading "filename:" or "file:" label, then strip()
CleanFilename(filename) ==
    LET m == MatchFrom(<< Lit(<< <<"f", "i", "l", "e", "n", "a", "m", "e", ":">>,
                                 <<"f", "i", "l", "e", ":">> >>), Spaces >>,
                       1, filename, 1, 1, <<>>)
    IN  Strip(IF m.ok THEN SubSeq(filename, m.end, Len(filename)) ELSE filename)

\* the counter of one pattern starts at 0: the match numbered block_index
\* among the matches of this pattern alone
MatchOfBlock(matches, block_index) ==
    IF block_index < Len(matches) THEN <<matches[block_index + 1]>> ELSE <<>>

\* the loop over the patterns: the first pattern, in list order, that has a
\* match numbered block_index decides
RECURSIVE ScanPatterns(_, _, _, _)
ScanPatterns(patterns, k, content, block_index) ==
    IF k > Len(patterns) THEN <<>>
    ELSE LET hit == MatchOfBlock(FindIter(patterns[k], content), block_index)
         IN  IF hit # <<>> THEN hit
             ELSE ScanPatterns(patterns, k + 1, content, block_index)

\* SoftwareDevelopmentAgent._extract_filename_from_content
AgentExtractFilename(content, block_index) ==
    LET hit == ScanPatterns(AgentPatterns, 1, content, block_index)
    IN  IF hit = <<>> THEN NoName ELSE CleanFilename(hit[1].group)

LangPython == <<"p", "y", "t", "h", "o", "n">>
LangJavascript == <<"j", "a", "v", "a", "s", "c", "r", "i", "p", "t">>
LangHtml == <<"h", "t", "m", "l">>
LangCss == <<"c", "s", "s">>
HelloWorld == <<"h", "e", "l", "l", "o", " ", "w", "o", "r", "l", "d">>
Main == <<"m", "a", "i", "n">>

\* the common filenames based on language of the single-call workflow
ContentDefault(content, block) ==
    LET language == Lower(Strip(block.language))
    IN  CASE language = LangPython ->
               IF Contains(Lower(content), HelloWorld)
               THEN <<"h", "e", "l", "l", "o", "_", "w", "o", "r", "l", "d", ".", "p", "y">>
               ELSE IF Contains(Lower(block.code), Main)
               THEN <<"m", "a", "i", "n", ".", "p", "y">>
               ELSE NoName
          [] language = LangJavascript ->
               IF Contains(Lower(content), HelloWorld)
               THEN <<"h", "e", "l", "l", "o", "_", "w", "o", "r", "l", "d", ".", "j", "s">>
               ELSE IF Contains(Lower(block.code), Main)
               THEN <<"m", "a", "i", "n", ".", "j", "s">>
               ELSE NoName
          [] language = LangHtml -> <<"i", "n", "d", "e", "x", ".", "h", "t", "m", "l">>
          [] language = LangCss -> <<"s", "t", "y", "l", "e", "s", ".", "c", "s", "s">>
          [] OTHER -> NoName

\* the explicit-pattern scan of the single-call workflow
WorkflowExplicitScan(content, block_index) ==
    LET hit == ScanPatterns(WorkflowPatterns, 1, content, block_index)
    IN  IF hit = <<>> THEN NoName ELSE hit[1].group

\* the common filenames are looked for first
FirstStrategy(content, block_index, blocks) ==
    IF block_index < Len(blocks)
    THEN ContentDefault(content, blocks[block_index + 1])
    ELSE NoName

\* extract_filename_from_content of the single-call workflow
WorkflowExtractFilename(content, block_index, blocks) ==
    LET first == FirstStrategy(content, block_index, blocks)
    IN  IF first # NoName THEN first
        ELSE WorkflowExplicitScan(content, block_index)

\* language_extensions of _get_extension_for_language
LanguageExtensions ==
    {  <<<<"p", "y", "t", "h", "o", "n">>, <<".", "p", "y">>>>,
       <<<<"j", "a", "v", "a", "s", "c", "r", "i", "p", "t">>, <<".", "j", "s">>>>,
       <<<<"t", "y", "p", "e", "s", "c", "r", "i", "p", "t">>, <<".", "t", "s">>>>,
       <<<<"h", "t", "m", "l">>, <<".", "h", "t", "m", "l">>>>,
       <<<<"c", "s", "s">>, <<".", "c", "s", "s">>>>,
       <<<<"j", "a", "v", "a">>, <<".", "j", "a", "v", "a">>>>,
       <<<<"c">>, <<".", "c">>>>,
       <<<<"c", "p", "p">>, <<".", "c", "p", "p">>>>,
       <<<<"c", "s", "h", "a", "r", "p">>, <<".", "c", "s">>>>,
       <<<<"g", "o">>, <<".", "g", "o">>>>,
       <<<<"r", "u", "s", "t">>, <<".", "r", "s">>>>,
       <<<<"p", "h", "p">>, <<".", "p", "h", "p">>>>,
       <<<<"r", "u", "b", "y">>, <<".", "r", "b">>>>,
       <<<<"s", "w", "i", "f", "t">>, <<".", "s", "w", "i", "f", "t">>>>,
       <<<<"k", "o", "t", "l", "i", "n">>, <<".", "k", "t">>>> }

TxtExtension == <<".", "t", "x", "t">>

\* language_extensions.get(language.lower(), '.txt')
GetExtensionForLanguage(language) ==
    IF \E e \in LanguageExtensions : e[1] = Lower(language)
    THEN (CHOOSE e \in LanguageExtensions : e[1] = Lower(language))[2]
    ELSE TxtExtension

----------------------------------------------------------------------------
(* The filesystem and the os / os.path calls of the code.  A path string   *)
(* is a Python str; the filesystem holds resolved paths, sequences of      *)
(* component names below "/".  fs.dirs is the set of directories, fs.files *)
(* maps each regular file to its content, and fs.made records every path   *)
(* that mkdir created or open(..., 'w') wrote.                             *)

\* the filesystem before a pass: the parent of the output root exists
EmptyFs ==
    [dirs |-> { <<>>, << <<"w">> >> }, files |-> <<>>, made |-> {}]

\* os.path.join(a, b)
PathJoin(a, b) ==
    IF b # <<>> /\ b[1] = Sep THEN b
    ELSE IF a = <<>> \/ a[Len(a)] = Sep THEN a \o b
    ELSE a \o <<Sep>> \o b

RECURSIVE RStripSep(_)
RStripSep(p) ==
    IF p # <<>> /\ p[Len(p)] = Sep THEN RStripSep(SubSeq(p, 1, Len(p) - 1)) ELSE p

\* os.path.split(p)
PathSplit(p) ==
    LET i == RFindSep(p, Len(p))
        head == SubSeq(p, 1, i)
    IN  [head |-> IF RStripSep(head) = <<>> THEN head ELSE RStripSep(head),
         tail |-> SubSeq(p, i + 1, Len(p))]

\* os.path.dirname(p)
Dirname(p) == PathSplit(p).head

Parent(path) == IF path = <<>> THEN <<>> ELSE SubSeq(path, 1, Len(path) - 1)

\* path resolution by the kernel, component by component: every component
\* is looked up in a directory that exists, ".." steps to the parent
RECURSIVE Walk(_, _, _, _)
Walk(fs, comps, k, cur) ==
    IF k > Len(comps) THEN [err |-> FALSE, path |-> cur]
    ELSE IF cur \notin fs.dirs THEN [err |-> TRUE, path |-> cur]
    ELSE LET c == comps[k]
         IN  Walk(fs, comps, k + 1,
                  IF c = <<>> \/ c = <<".">> THEN cur
                  ELSE IF c = <<".", ".">> THEN Parent(cur)
                  ELSE Append(cur, c))

Resolve(fs, p) == Walk(fs, Split(p, Sep), 1, <<>>)

\* what the path string p names: "dir", "file", "absent" (the parent exists,
\* the last component does not) or "error" (a component on the way is
\* missing or is not a directory)
Status(fs, p) ==
    LET r == Resolve(fs, p)
    IN  IF r.err THEN "error"
        ELSE IF r.path \in fs.dirs THEN "dir"
        ELSE IF r.path \in DOMAIN fs.files THEN "file"
        ELSE "absent"

\* os.path.exists(p), os.path.isdir(p)
Exists(fs, p) == Status(fs, p) \in {"dir", "file"}
IsDir(fs, p) == Status(fs, p) = "dir"

\* the outcome of a call: the filesystem it leaves and the exception it
\* raised ("none", "FileExistsError" or another "OSError")
Ok(fs) == [fs |-> fs, exc |-> "none"]
Raise(fs, exc) == [fs |-> fs, exc |-> exc]

\* os.mkdir(p): trailing separators do not ask for an existing directory
Mkdir(fs, p) ==
    LET name == IF RStripSep(p) = <<>> THEN p ELSE RStripSep(p)
        st == Status(fs, name)
    IN  IF st = "error" THEN Raise(fs, "OSError")
        ELSE IF st # "absent" THEN Raise(fs, "FileExistsError")
        ELSE Ok([fs EXCEPT !.dirs = @ \cup {Resolve(fs, name).path},
                           !.made = @ \cup {Resolve(fs, name).path}])

\* os.makedirs(name) with exist_ok=False
RECURSIVE MakeDirs(_, _)
MakeDirs(fs, name) ==
    LET s0 == PathSplit(name)
        s == IF s0.tail = <<>> THEN PathSplit(s0.head) ELSE s0
    IN  IF s.head # <<>> /\ s.tail # <<>> /\ ~Exists(fs, s.head)
        THEN LET up == MakeDirs(fs, s.head)
             IN  IF up.exc = "OSError" THEN up
                 ELSE IF s.tail = <<".">> THEN Ok(up.fs)
                 ELSE Mkdir(up.fs, name)
        ELSE Mkdir(fs, name)

\* utils.ensure_directory
ensure_directory(fs, directory_path) ==
    IF ~Exists(fs, directory_path) THEN MakeDirs(fs, directory_path) ELSE Ok(fs)

\* open(p, 'a'): the content is added to what the file holds
OpenWrite_Append(fs, p, content) ==
    LET st == Status(fs, p)
        path == Resolve(fs, p).path
    IN  IF st \in {"error", "dir"} THEN Raise(fs, "OSError")
        ELSE Ok([fs EXCEPT
                   !.files = [q \in DOMAIN @ \cup {path} |->
                                 IF q # path THEN @[q]
                                 ELSE IF path \in DOMAIN @ THEN @[q] \o content
                                 ELSE content],
                   !.made = @ \cup {path}])

\* open(p, 'w') followed by f.write(content)
OpenWrite(fs, p, content) ==
    LET st == Status(fs, p)
        path == Resolve(fs, p).path
    IN  IF st \in {"error", "dir"} THEN Raise(fs, "OSError")
        ELSE Ok([fs EXCEPT
                   !.files = [q \in DOMAIN @ \cup {path} |->
                                 IF q = path THEN content ELSE @[q]],
                   !.made = @ \cup {path}])

\* re.sub(r'%+$', '', code): the run of % at the end of the string, or just
\* before a newline that ends the string
RECURSIVE DropPercents(_)
DropPercents(s) ==
    IF s # <<>> /\ s[Len(s)] = "%" THEN DropPercents(SubSeq(s, 1, Len(s) - 1)) ELSE s

SubTrailingPercents(code) ==
    IF code = <<>> THEN code
    ELSE IF code[Len(code)] = "%" THEN DropPercents(code)
    ELSE IF code[Len(code)] = NL
    THEN DropPercents(SubSeq(code, 1, Len(code) - 1)) \o <<NL>>
    ELSE code

\* str.splitlines()
SplitLines(s) ==
    IF s = <<>> THEN <<>>
    ELSE LET parts == Split(s, NL)
         IN  IF parts[Len(parts)] = <<>>
             THEN SubSeq(parts, 1, Len(parts) - 1)
             ELSE parts

\* utils.clean_code
clean_code(code) ==
    LET lines == SplitLines(SubTrailingPercents(code))
        cleaned_lines == [n \in 1..Len(lines) |-> RStrip(lines[n])]
    IN  RStrip(Join(cleaned_lines, NL))

\* utils.write_file
write_file(fs, file_path, content) ==
    LET directory == Dirname(file_path)
        made == IF directory # <<>> THEN ensure_directory(fs, directory) ELSE Ok(fs)
    IN  IF made.exc # "none" THEN made
        ELSE OpenWrite(made.fs, file_path, clean_code(content))

----------------------------------------------------------------------------
(* One generation pass: the loop of _save_code_blocks_to_files (agent.py)  *)
(* and of run_software_dev_workflow (software_dev_workflow.py), and the    *)
(* project-structure extractor.                                            *)

\* the output roots of two passes: self.output_folder of each agent
OutputFolders == << <<"/", "w", "/", "o", "u", "t">>, <<"/", "w", "/", "o", "2">> >>

\* the output root of the pass that is running
OutputFolder == OutputFolders[running]

\* the resolved path of the output root
RootPath == << <<"w">>, <<"o", "u", "t">> >>

DigitChars == <<"0", "1", "2", "3", "4", "5", "6", "7", "8", "9">>

\* the decimal digits of a natural number, as an f-string prints them
RECURSIVE Decimal(_)
Decimal(n) ==
    IF n < 10 THEN <<DigitChars[n + 1]>>
    ELSE Decimal(n \div 10) \o <<DigitChars[(n % 10) + 1]>>

\* the ordinal printed from the 0-based index itself
SyntheticName_ZeroBased(i, extension) ==
    <<"g", "e", "n", "e", "r", "a", "t", "e", "d", "_", "c", "o", "d", "e", "_">>
        \o Decimal(i) \o extension

\* f"generated_code_{i+1}{extension}"
SyntheticName(i, extension) ==
    <<"g", "e", "n", "e", "r", "a", "t", "e", "d", "_", "c", "o", "d", "e", "_">>
        \o Decimal(i + 1) \o extension

\* f"index{extension}"
IndexName(extension) == <<"i", "n", "d", "e", "x">> \o extension

\* the resolver of the entry point
ExtractFilename(variant, content, i, blocks) ==
    IF variant = "agent"
    THEN AgentExtractFilename(content, i)
    ELSE WorkflowExtractFilename(content, i, blocks)

\* a block whose body is empty is written as an empty file
SkippedBlock_EmptyFile(fs) ==
    [fs |-> OpenWrite(fs, PathJoin(OutputFolder, <<"e", "m", "p", "t", "y">>), <<>>).fs,
     exc |-> "none", skipped |-> TRUE, resolved |-> NoName,
     filename |-> <<>>, collided |-> FALSE, file_path |-> <<>>, code |-> <<>>]

\* a block whose body is empty after strip() is passed over
SkippedBlock(fs) ==
    [fs |-> fs, exc |-> "none", skipped |-> TRUE, resolved |-> NoName,
     filename |-> <<>>, collided |-> FALSE, file_path |-> <<>>, code |-> <<>>]

\* os.path.join(output_folder, filename)
JoinRoot(root, filename) == PathJoin(root, filename)

\* what one iteration leaves: the filesystem, the exception raised, and what
\* the iteration computed on the way
Outcome(done, resolved, filename, collided, file_path, code) ==
    [fs |-> done.fs, exc |-> done.exc, skipped |-> FALSE, resolved |-> resolved,
     filename |-> filename, collided |-> collided, file_path |-> file_path,
     code |-> code]

\* write_file(file_path, code)
WriteTo(fs, resolved, filename, cleaned, collided, file_path) ==
    Outcome(write_file(fs, file_path, cleaned), resolved, filename, collided,
            file_path, cleaned)

\* the block is written over the path that is a directory
WriteAt_OverDirectory(fs, language, resolved, filename, cleaned, joined, collided) ==
    WriteTo(fs, resolved, filename, cleaned, collided, joined)

\* a file_path that is a directory gets index<extension> appended
WriteAt(fs, language, resolved, filename, cleaned, joined, collided) ==
    WriteTo(fs, resolved, filename, cleaned, collided,
            IF collided
            THEN PathJoin(joined, IndexName(GetExtensionForLanguage(language)))
            ELSE joined)

\* after the directories of the filename: is file_path a directory
SaveUnder(made, language, resolved, filename, cleaned, joined) ==
    IF made.exc # "none"
    THEN Outcome(made, resolved, filename, FALSE, <<>>, cleaned)
    ELSE WriteAt(made.fs, language, resolved, filename, cleaned, joined,
                 IsDir(made.fs, joined))

\* the code is cleaned and the directories of a filename with a separator
\* are ensured
SaveNamed(fs, language, code, resolved, filename) ==
    SaveUnder(IF Contains(filename, <<Sep>>)
              THEN ensure_directory(fs, JoinRoot(OutputFolder, Dirname(filename)))
              ELSE Ok(fs),
              language, resolved, filename, RStrip(SubTrailingPercents(code)),
              JoinRoot(OutputFolder, filename))

\* the default name when the resolver found none
SaveResolved(fs, language, code, resolved, i) ==
    SaveNamed(fs, language, code, resolved,
              IF resolved = NoName
              THEN SyntheticName(i, GetExtensionForLanguage(language))
              ELSE resolved)

\* the ordinal counts only the blocks before this one that were not passed
\* over
SaveBlock_CountsWritten(fs, variant, content, blocks, i) ==
    IF Strip(blocks[i + 1].code) = <<>> THEN SkippedBlock(fs)
    ELSE SaveResolved(fs, Strip(blocks[i + 1].language), Strip(blocks[i + 1].code),
                      ExtractFilename(variant, content,
                          Cardinality({m \in 1..i : Strip(blocks[m].code) # <<>>}),
                          blocks),
                      Cardinality({m \in 1..i : Strip(blocks[m].code) # <<>>}))

\* one iteration of the loop over the blocks, for the block with 0-based
\* ordinal i
SaveBlock(fs, variant, content, blocks, i) ==
    IF Strip(blocks[i + 1].code) = <<>> THEN SkippedBlock(fs)
    ELSE SaveResolved(fs, Strip(blocks[i + 1].language), Strip(blocks[i + 1].code),
                      ExtractFilename(variant, content, i, blocks), i)

\* the box-drawing characters of a tree diagram
TEE == "tee"
ELL == "ell"
HBAR == "hbar"

LitCS(alts) == [kind |-> "lit", alts |-> alts, ic |-> FALSE]

\* structure_pattern, matched with re.DOTALL
StructurePattern ==
    << LitCS(<< FenceMarker >>),
       [kind |-> "optlit", ic |-> FALSE,
        alts |-> << <<"b", "a", "s", "h">>, <<"s", "h", "e", "l", "l">>,
                    <<"t", "e", "x", "t">> >>],
       Spaces,
       LitCS(<< <<"p", "r", "o", "j", "e", "c", "t", "/">> >>),
       [kind |-> "until", lit |-> FenceMarker] >>

\* dir_pattern
DirPattern ==
    << LitCS(<< <<TEE>>, <<ELL>> >>), LitCS(<< <<HBAR, HBAR, " ">> >>),
       [kind |-> "group_sep"] >>

InitPy == <<"_", "_", "i", "n", "i", "t", "_", "_", ".", "p", "y">>

\* the loop over dir_matches, from hint k on
RECURSIVE MakeHints(_, _, _)
MakeHints(fs, hints, k) ==
    IF k > Len(hints) THEN Ok(fs)
    ELSE LET dir_path == hints[k].group
             full_path == PathJoin(OutputFolder, dir_path)
             made == ensure_directory(fs, full_path)
             init_file == PathJoin(full_path, InitPy)
             marked == IF dir_path[Len(dir_path)] = Sep /\ ~Exists(made.fs, init_file)
                       THEN write_file(made.fs, init_file, <<>>)
                       ELSE Ok(made.fs)
         IN  IF made.exc # "none" THEN made
             ELSE IF marked.exc # "none" THEN marked
             ELSE MakeHints(marked.fs, hints, k + 1)

\* _create_project_structure / create_project_structure
create_project_structure(fs, content) ==
    LET structure_match == Search(StructurePattern, content)
        structure_text == SubSeq(content, structure_match.start,
                                 structure_match.end - 1)
    IN  IF structure_match.ok
        THEN MakeHints(fs, FindIter(DirPattern, structure_text), 1)
        ELSE Ok(fs)

\* the first block from k on whose tag is the language, compared in lower
\* case; 0 when there is none
RECURSIVE FirstOfLanguage(_, _, _)
FirstOfLanguage(blocks, language, k) ==
    IF k > Len(blocks) THEN 0
    ELSE IF Lower(blocks[k].language) = Lower(language) THEN k
    ELSE FirstOfLanguage(blocks, language, k + 1)

\* the first block is taken whatever its language
SelectBlock_First(blocks, language, k) == blocks[1]

\* generate_code: the first block of the requested language, else the first
\* block
SelectBlock(blocks, language, k) == blocks[IF k = 0 THEN 1 ELSE k]

\* generate_code saves the code with write_file and returns it as extracted
ReturnCode(done, returned) == [fs |-> done.fs, exc |-> done.exc, code |-> returned]

\* SoftwareDevelopmentAgent.generate_code, from the response of the model on
GenerateFrom(fs, answer, blocks, language, filename) ==
    IF blocks # <<>>
    THEN ReturnCode(write_file(fs, PathJoin(OutputFolder, filename),
                               SelectBlock(blocks, language,
                                           FirstOfLanguage(blocks, language, 1)).code),
                    SelectBlock(blocks, language,
                                FirstOfLanguage(blocks, language, 1)).code)
    ELSE [fs |-> fs, exc |-> "none", code |-> answer]

generate_code(fs, answer, language, filename) ==
    GenerateFrom(fs, answer, extract_code_from_markdown(answer), language, filename)

\* generate_files: the language is what follows the last dot of the name
FileLanguage(name) ==
    IF Contains(name, <<".">>)
    THEN Split(name, ".")[Len(Split(name, "."))]
    ELSE <<"t", "x", "t">>

\* os.makedirs(name, exist_ok=True)
MakeDirsExistOk(fs, name) == IF IsDir(fs, name) THEN Ok(fs) ELSE MakeDirs(fs, name)

\* with open(file_path, "w") as f: f.write(content), nothing cleaned
OpenWriteIn(made, file_path, returned) ==
    IF made.exc # "none" THEN made ELSE OpenWrite(made.fs, file_path, returned)

\* generate_files, after generate_code: the directories of the file, then
\* the content as generate_code returned it
SaveGenerated(fs, name, returned) ==
    OpenWriteIn(MakeDirsExistOk(fs, Dirname(PathJoin(OutputFolder, name))),
                PathJoin(OutputFolder, name), returned)

----------------------------------------------------------------------------
(* Inputs of the extractor specification                                   *)

MaxLines == 4

\* the lines a response is assembled from
DocLines ==
    { <<BQ, BQ, BQ>>,
      <<BQ, BQ, BQ, "p", "y">>,
      <<BQ, BQ, BQ, " ", "j", "s", " ">>,
      <<" ", BQ, BQ, BQ>>,
      <<"x">>,
      <<>>,
      <<"x", BQ, BQ, BQ>> }

SeqsUpTo(S, n) == UNION { [1..k -> S] : k \in 0..n }

Docs == { Join(ls, NL) : ls \in SeqsUpTo(DocLines, MaxLines) }

\* arguments of format_code_for_llm: code without a fence line, a raw tag
FmtCodes ==
    { Join(ls, NL) :
        ls \in SeqsUpTo({ l \in DocLines : ~IsFenceLine(l) }, MaxLines - 2) }

FmtLanguages ==
    { <<>>, <<"p", "y">>, <<" ", "j", "s", " ">>, <<"\t", "c">> }

----------------------------------------------------------------------------
(* The extractor as a state machine: a response arrives (or is produced by *)
(* format_code_for_llm), is extracted, and its blocks are re-joined with   *)
(* fence markers and extracted again.                                      *)

\* format_code_for_llm not called: the response came from elsewhere
NotFormatted == [called |-> FALSE, code |-> <<>>, language |-> <<>>]

InitExtract ==
    /\ pc = "idle"
    /\ markdown = <<>>
    /\ fmt = NotFormatted
    /\ code_blocks = <<>>
    /\ reextracted = <<>>
    /\ entry = "none"
    /\ response = <<>>
    /\ disk = EmptyFs
    /\ ordinal = 0
    /\ trace = <<>>
    /\ body = <<>>
    /\ sanitized = <<>>
    /\ file_name = <<>>
    /\ generated = <<>>
    /\ LaterIdle

Receive ==
    /\ pc = "idle"
    /\ \E d \in Docs : markdown' = d
    /\ pc' = "received"
    /\ UNCHANGED <<fmt, code_blocks, reextracted>>
    /\ UNCHANGED <<passVars, cleanVars, stageVars, laterVars>>

FormatCodeForLlm ==
    /\ pc = "idle"
    /\ \E c \in FmtCodes, l \in FmtLanguages :
          /\ fmt' = [called |-> TRUE, code |-> c, language |-> l]
          /\ markdown' = format_code_for_llm(c, l)
    /\ pc' = "received"
    /\ UNCHANGED <<code_blocks, reextracted>>
    /\ UNCHANGED <<passVars, cleanVars, stageVars, laterVars>>

Extract ==
    /\ pc = "received"
    /\ code_blocks' = extract_code_from_markdown(markdown)
    /\ pc' = "extracted"
    /\ UNCHANGED <<markdown, fmt, reextracted>>
    /\ UNCHANGED <<passVars, cleanVars, stageVars, laterVars>>

\* every block re-joined with its fence markers, the results concatenated
\* line-wise
Rejoined(blocks) ==
    Join([k \in 1..Len(blocks) |->
            format_code_for_llm(blocks[k].code, blocks[k].language)], NL)

Reextract ==
    /\ pc = "extracted"
    /\ reextracted' = extract_code_from_markdown(Rejoined(code_blocks))
    /\ pc' = "reextracted"
    /\ UNCHANGED <<markdown, fmt, code_blocks>>
    /\ UNCHANGED <<passVars, cleanVars, stageVars, laterVars>>

NextExtract == Receive \/ FormatCodeForLlm \/ Extract \/ Reextract

SpecExtract == InitExtract /\ [][NextExtract]_vars

----------------------------------------------------------------------------
(* Properties of the extractor                                             *)

\* the first three characters of the line are backquotes
StartsWithMarker(line) ==
    /\ Len(line) >= 3
    /\ \A n \in 1..3 : line[n] = BQ

\* 1-based positions of the lines that start with the marker
FencePositions(lines) == { n \in 1..Len(lines) : StartsWithMarker(lines[n]) }

\* the n-th smallest element of a set of numbers
Nth(S, n) == CHOOSE x \in S : Cardinality({ y \in S : y < x }) = n - 1

\* the line that opens block k and the line that closes it (one past the
\* last line when block k is not closed)
OpeningLine(lines, k) == Nth(FencePositions(lines), 2 * k - 1)

ClosingLine(lines, k) ==
    IF 2 * k <= Cardinality(FencePositions(lines))
    THEN Nth(FencePositions(lines), 2 * k)
    ELSE Len(lines) + 1

Extracted == pc \in {"extracted", "reextracted"}

\* C2: a document with F fence lines yields ceil(F/2) blocks, block k being
\* the one opened by fence line 2k-1 (fence lines 2, 4, ... open nothing),
\* so the blocks come in document order.
C2_OneBlockPerFencedRegion ==
    Extracted =>
        LET lines == Split(markdown, NL)
            F == Cardinality(FencePositions(lines))
        IN  /\ Len(code_blocks) = (F + 1) \div 2
            /\ \A k \in 1..Len(code_blocks) :
                  /\ StartsWith(LStrip(From(lines[OpeningLine(lines, k)], 3)),
                                code_blocks[k].language)
                  /\ k > 1 => ClosingLine(lines, k - 1) < OpeningLine(lines, k)

C2_Witness ==
    /\ pc = "extracted"
    /\ Len(code_blocks) = 2
    /\ Cardinality(FencePositions(Split(markdown, NL))) = 4
    /\ code_blocks[1].language # code_blocks[2].language

\* C3: the language tag is the text after the marker on the opening line,
\* trimmed; the body is the lines strictly between the opening line and the
\* next line that starts with the marker, joined by newlines; no body line
\* starts with the marker.
C3_TagAndBody ==
    Extracted =>
        LET lines == Split(markdown, NL)
        IN  \A k \in 1..Len(code_blocks) :
              LET o == OpeningLine(lines, k)
                  c == ClosingLine(lines, k)
                  tag == From(lines[o], 3)
              IN  /\ code_blocks[k].language = Strip(tag)
                  /\ code_blocks[k].code = Join(SubSeq(lines, o + 1, c - 1), NL)
                  /\ \A n \in (o + 1)..(c - 1) : ~StartsWithMarker(lines[n])
                  /\ \A l \in { Split(code_blocks[k].code, NL)[n] :
                                  n \in 1..Len(Split(code_blocks[k].code, NL)) } :
                        ~StartsWithMarker(l)

\* a closed block with a padded tag, a body and a tagged closing line
C3_Witness ==
    /\ pc = "extracted"
    /\ Len(code_blocks) = 1
    /\ code_blocks[1].code # <<>>
    /\ LET lines == Split(markdown, NL)
       IN  /\ Cardinality(FencePositions(lines)) = 2
           /\ From(lines[OpeningLine(lines, 1)], 3) # code_blocks[1].language
           /\ lines[ClosingLine(lines, 1)] # FenceMarker

\* C4: when the last fence is opened and never closed, the last block's
\* body is every line after that fence up to the end of the input.
C4_UnterminatedFence ==
    Extracted =>
        LET lines == Split(markdown, NL)
            FP == FencePositions(lines)
            F == Cardinality(FP)
        IN  F % 2 = 1 =>
              /\ code_blocks # <<>>
              /\ code_blocks[Len(code_blocks)].code =
                    Join(SubSeq(lines, Nth(FP, F) + 1, Len(lines)), NL)

C4_Witness ==
    /\ pc = "extracted"
    /\ LET lines == Split(markdown, NL)
           FP == FencePositions(lines)
           F == Cardinality(FP)
       IN  /\ F = 1
           /\ Nth(FP, F) > 1
           /\ Nth(FP, F) + 2 = Len(lines)
           /\ Len(code_blocks) = 1
           /\ Len(Split(code_blocks[1].code, NL)) = 2

\* C5: a line of leading whitespace followed by the marker is a fence line:
\* counting such lines too, F fence lines yield ceil(F/2) blocks.
C5_IndentedFenceIsFence ==
    Extracted =>
        LET lines == Split(markdown, NL)
            F == Cardinality({ n \in 1..Len(lines) :
                                 StartsWithMarker(LStrip(lines[n])) })
        IN  Len(code_blocks) = (F + 1) \div 2

\* C6: re-joining every block with its fence markers and extracting again
\* yields the same blocks; and the extraction of format_code_for_llm(code,
\* lang), for code without a fence line, is the one block (trimmed lang, code).
C6_RoundTrip ==
    /\ pc = "reextracted" => reextracted = code_blocks
    /\ (Extracted /\ fmt.called) =>
          code_blocks = << [language |-> Strip(fmt.language), code |-> fmt.code] >>

C6_Witness ==
    /\ pc = "reextracted"
    /\ ~fmt.called
    /\ Len(reextracted) = 2
    /\ reextracted[1].code # <<>>
    /\ reextracted[2].language # <<>>

C6_WitnessFormat ==
    /\ pc = "extracted"
    /\ fmt.called
    /\ fmt.code # <<>>
    /\ Strip(fmt.language) # fmt.language

----------------------------------------------------------------------------
(* Inputs of a generation pass: a response is a sequence of sections, each *)
(* a fenced block, most of them preceded by a line that announces a file   *)
(* name.                                                                   *)

\* "Save this to a.py" announcing a js block
SaveThisTo ==
    <<"S", "a", "v", "e", " ", "t", "h", "i", "s", " ", "t", "o", " ", "a",
      ".", "p", "y", NL, BQ, BQ, BQ, "j", "s", NL, "x", NL, BQ, BQ, BQ>>

\* "Filename: b.py" announcing an html block
FilenameHtml ==
    <<"F", "i", "l", "e", "n", "a", "m", "e", ":", " ", "b", ".", "p", "y",
      NL, BQ, BQ, BQ, "h", "t", "m", "l", NL, "x", NL, BQ, BQ, BQ>>

\* "Filename: ../e.py" announcing an untagged block
FilenameDotDot ==
    <<"F", "i", "l", "e", "n", "a", "m", "e", ":", " ", ".", ".", "/", "e",
      ".", "p", "y", NL, BQ, BQ, BQ, NL, "x", NL, BQ, BQ, BQ>>

\* a python block that nothing announces
PythonBlock ==
    <<BQ, BQ, BQ, "p", "y", "t", "h", "o", "n", NL, "x", NL, BQ, BQ, BQ>>

\* a block tagged Python whose body calls main()
PythonMain ==
    <<BQ, BQ, BQ, "P", "y", "t", "h", "o", "n", NL, "m", "a", "i", "n",
      "(", ")", NL, BQ, BQ, BQ>>

\* "Filename: generated_code_2.txt/x" announcing an untagged block
FilenameInDir ==
    <<"F", "i", "l", "e", "n", "a", "m", "e", ":", " ", "g", "e", "n", "e",
      "r", "a", "t", "e", "d", "_", "c", "o", "d", "e", "_", "2", ".", "t",
      "x", "t", "/", "x", NL, BQ, BQ, BQ, NL, "y", NL, BQ, BQ, BQ>>

\* an untagged block that nothing announces
PlainBlock ==
    <<BQ, BQ, BQ, NL, "x", NL, BQ, BQ, BQ>>

\* a python block with a blank body
EmptyBlock ==
    <<BQ, BQ, BQ, "p", "y", "t", "h", "o", "n", NL, NL, BQ, BQ, BQ>>

\* a tree diagram of project/ with the directory a.py/
TreeBlock ==
    <<BQ, BQ, BQ, "t", "e", "x", "t", NL, "p", "r", "o", "j", "e", "c",
      "t", "/", NL, TEE, HBAR, HBAR, " ", "a", ".", "p", "y", "/", NL, BQ,
      BQ, BQ>>

\* a python block whose body ends with runs of % and two blank lines
PercentBlock ==
    <<BQ, BQ, BQ, "p", "y", "t", "h", "o", "n", NL, "x", "%", " ", "%", " ",
      "%", "%", "%", "%", "%", NL, NL, NL, BQ, BQ, BQ>>

\* "Filename: b.py/index.html/x" announcing an untagged block
FilenameNested ==
    <<"F", "i", "l", "e", "n", "a", "m", "e", ":", " ", "b", ".", "p", "y",
      "/", "i", "n", "d", "e", "x", ".", "h", "t", "m", "l", "/", "x", NL,
      BQ, BQ, BQ, NL, "y", NL, BQ, BQ, BQ>>

\* "Filename: b.py" once more, announcing an untagged block
FilenameAgain ==
    <<"F", "i", "l", "e", "n", "a", "m", "e", ":", " ", "b", ".", "p", "y",
      NL, BQ, BQ, BQ, NL, "z", NL, BQ, BQ, BQ>>

\* two untagged blocks with a tree diagram of project/ in the prose between
\* them
ProseTree ==
    <<BQ, BQ, BQ, NL, "x", NL, BQ, BQ, BQ, NL, "p", "r", "o", "j", "e", "c",
      "t", "/", NL, ELL, HBAR, HBAR, " ", "b", "/", NL, BQ, BQ, BQ, NL, "y",
      NL, BQ, BQ, BQ>>

PassSections ==
    { SaveThisTo, FilenameHtml, FilenameDotDot, PythonBlock, PythonMain,
      FilenameInDir, PlainBlock, EmptyBlock, TreeBlock, PercentBlock,
      FilenameNested, FilenameAgain, ProseTree }

MaxSections == 2

PassDocs == { Join(ss, NL) : ss \in SeqsUpTo(PassSections, MaxSections) }

\* the entry points: interactive mode (main.py with agent.py) and the
\* single-call workflow (software_dev_workflow.py)
Variants == {"agent", "workflow"}

\* the files of the project structure that the per-file generation stage
\* (generate_files of langgraph_dev_workflow.py) asks the model for
FileNames ==
    { <<"a", "p", "p", ".", "p", "y">>, <<"t", "r", "e", "e", ".", "t", "e", "x", "t">> }

----------------------------------------------------------------------------
(* The generation pass as a state machine                                  *)

InitPass ==
    /\ pc = "ready"
    /\ markdown = <<>>
    /\ fmt = NotFormatted
    /\ code_blocks = <<>>
    /\ reextracted = <<>>
    /\ entry = "none"
    /\ response = <<>>
    /\ disk = EmptyFs
    /\ ordinal = 0
    /\ trace = <<>>
    /\ body = <<>>
    /\ sanitized = <<>>
    /\ file_name = <<>>
    /\ generated = <<>>
    /\ LaterIdle

\* where the entry point goes when a call returns or raises
After(exc, next) == IF exc # "none" THEN "raised" ELSE next

\* a response arrives: the output folder is ensured (the constructor of the
\* agent, line 81 of the workflow) and the blocks are extracted
StartPass ==
    /\ pc = "ready"
    /\ \E v \in Variants, d \in PassDocs, r \in {ensure_directory(disk, OutputFolder)} :
          /\ entry' = v
          /\ response' = d
          /\ disk' = r.fs
          /\ code_blocks' = extract_code_from_markdown(d)
          /\ pc' = After(r.exc, IF v = "workflow" THEN "structure" ELSE "blocks")
    /\ UNCHANGED <<markdown, fmt, reextracted, ordinal, trace>>
    /\ UNCHANGED <<cleanVars, stageVars, laterVars>>

\* create_project_structure: before the blocks in the workflow, after them
\* in interactive mode
CreateProjectStructure ==
    /\ pc = "structure"
    /\ \E r \in {create_project_structure(disk, response)} :
          /\ disk' = r.fs
          /\ pc' = After(r.exc, IF entry = "workflow" THEN "blocks" ELSE "done")
    /\ UNCHANGED <<markdown, fmt, code_blocks, reextracted, entry, response, ordinal,
                   trace>>
    /\ UNCHANGED <<cleanVars, stageVars, laterVars>>

\* one iteration of the loop over the blocks
SaveNextBlock ==
    /\ pc = "blocks"
    /\ ordinal < Len(code_blocks)
    /\ \E r \in {SaveBlock(disk, entry, response, code_blocks, ordinal)} :
          /\ disk' = r.fs
          /\ trace' = Append(trace, [f \in DOMAIN r \ {"fs"} |-> r[f]])
          /\ pc' = After(r.exc, "blocks")
    /\ ordinal' = ordinal + 1
    /\ UNCHANGED <<markdown, fmt, code_blocks, reextracted, entry, response>>
    /\ UNCHANGED <<cleanVars, stageVars, laterVars>>

\* the loop over the blocks ends
EndOfBlocks ==
    /\ pc = "blocks"
    /\ ordinal = Len(code_blocks)
    /\ pc' = IF entry = "agent" THEN "structure" ELSE "done"
    /\ UNCHANGED <<markdown, fmt, code_blocks, reextracted, entry, response, disk,
                   ordinal, trace>>
    /\ UNCHANGED <<cleanVars, stageVars, laterVars>>

\* generate_files takes the next file of the project structure: its agent is
\* constructed and the model answers the prompt for the file
StartGenerate ==
    /\ pc = "ready"
    /\ \E n \in FileNames, d \in PassDocs, r \in {ensure_directory(disk, OutputFolder)} :
          /\ file_name' = n
          /\ response' = d
          /\ disk' = r.fs
          /\ pc' = After(r.exc, "generate_code")
    /\ entry' = "generate_files"
    /\ UNCHANGED <<markdown, fmt, code_blocks, reextracted, ordinal, trace, generated>>
    /\ UNCHANGED <<cleanVars, laterVars>>

\* agent.generate_code(prompt, language, file_name)
GenerateCode ==
    /\ pc = "generate_code"
    /\ \E r \in {generate_code(disk, response, FileLanguage(file_name), file_name)} :
          /\ disk' = r.fs
          /\ generated' = r.code
          /\ pc' = After(r.exc, "save_file")
    /\ code_blocks' = extract_code_from_markdown(response)
    /\ UNCHANGED <<markdown, fmt, reextracted, entry, response, ordinal, trace, file_name>>
    /\ UNCHANGED <<cleanVars, laterVars>>

\* generate_files saves the content that generate_code returned
SaveFile ==
    /\ pc = "save_file"
    /\ \E r \in {SaveGenerated(disk, file_name, generated)} :
          /\ disk' = r.fs
          /\ pc' = After(r.exc, "done")
    /\ UNCHANGED <<markdown, fmt, code_blocks, reextracted, entry, response, ordinal,
                   trace>>
    /\ UNCHANGED <<cleanVars, stageVars, laterVars>>

NextPass ==
    \/ StartPass
    \/ CreateProjectStructure
    \/ SaveNextBlock
    \/ EndOfBlocks
    \/ StartGenerate
    \/ GenerateCode
    \/ SaveFile

SpecPass == InitPass /\ [][NextPass]_vars

----------------------------------------------------------------------------
(* Properties of the generation pass                                       *)

\* the resolved path lies in the output root or below it
UnderRoot(path) ==
    /\ Len(path) >= Len(RootPath)
    /\ SubSeq(path, 1, Len(RootPath)) = RootPath

\* C1: every file or directory a pass creates or overwrites lies under the
\* output root, whatever file name the resolver returned.
C1_WritesStayUnderRoot == \A path \in disk.made : UnderRoot(path)

\* the blocks the pass has handled and not passed over, by 1-based number
Handled == { k \in 1..Len(trace) : ~trace[k].skipped }

\* the first pattern of the list that matches at position p of s
RECURSIVE FirstPatternAt(_, _, _, _)
FirstPatternAt(patterns, k, s, p) ==
    IF k > Len(patterns) THEN NoMatch
    ELSE LET m == MatchFrom(patterns[k], 1, s, p, p, <<>>)
         IN  IF m.ok THEN m ELSE FirstPatternAt(patterns, k + 1, s, p)

\* the occurrences of all the patterns together, in document order: the scan
\* takes the leftmost occurrence of any pattern and goes on after its end
RECURSIVE CombinedFrom(_, _, _, _)
CombinedFrom(patterns, s, starts, pos) ==
    LET later == { p \in starts : p >= pos }
    IN  IF later = {} THEN <<>>
        ELSE LET m == FirstPatternAt(patterns, 1, s, Min(later))
             IN  <<m>> \o CombinedFrom(patterns, s, starts, m.end)

CombinedOccurrences(patterns, s) ==
    CombinedFrom(patterns, s,
                 { p \in 1..Len(s) : FirstPatternAt(patterns, 1, s, p).ok }, 1)

\* C7: the matches of all announcement patterns are counted with one running
\* counter over their combined occurrences, and the block with ordinal i is
\* given the occurrence whose count is i (nothing when there is none).
C7_OneCounterOverAllPatterns ==
    entry = "agent" =>
        \A k \in Handled :
            LET all == CombinedOccurrences(AgentPatterns, response)
            IN  trace[k].resolved =
                    IF k <= Len(all) THEN all[k].group ELSE NoName

FilenameLabel == <<"F", "i", "l", "e", "n", "a", "m", "e", ":", " ">>

\* the names announced by the lines "Filename: X", in document order
AnnouncedNames(s) ==
    LET lines == Split(s, NL)
        at == { n \in 1..Len(lines) : StartsWith(lines[n], FilenameLabel) }
    IN  [k \in 1..Cardinality(at) |-> From(lines[Nth(at, k)], Len(FilenameLabel))]

\* the patterns of the entry point
PatternsOf(v) == IF v = "agent" THEN AgentPatterns ELSE WorkflowPatterns

\* one "Filename: X" line per block and no phrase of another kind (the
\* patterns "filename" and "file" are those of the announcements themselves)
WellOrdered ==
    /\ code_blocks # <<>>
    /\ Len(AnnouncedNames(response)) = Len(code_blocks)
    /\ \A n \in {1, 2, 5, 6, 7} : MatchStarts(PatternsOf(entry)[n], response) = {}

\* C8: with N blocks and N announcements "Filename: X_0" .. "Filename:
\* X_{N-1}" in document order, one per block, the resolver returns X_k for
\* the block with ordinal k.
C8_PositionalCorrelation ==
    (entry \in Variants /\ WellOrdered) =>
        \A k \in Handled : trace[k].resolved = AnnouncedNames(response)[k]

\* the same for the resolver of agent.py alone, which has no content-based
\* default
C8_AgentResolver ==
    (entry = "agent" /\ WellOrdered) =>
        \A k \in Handled : trace[k].resolved = AnnouncedNames(response)[k]

IsExtensionOf(extension, tag) ==
    \/ \E e \in LanguageExtensions : e[1] = Lower(tag) /\ e[2] = extension
    \/ /\ \A e \in LanguageExtensions : e[1] # Lower(tag)
       /\ extension = <<".", "t", "x", "t">>

\* the name generated_code_<number><extension>, for a one-digit number
IsSyntheticName(name, number, tag) ==
    LET prefix == <<"g", "e", "n", "e", "r", "a", "t", "e", "d", "_",
                    "c", "o", "d", "e", "_">>
    IN  /\ StartsWith(name, prefix \o <<DigitChars[number + 1]>>)
        /\ IsExtensionOf(From(name, Len(prefix) + 1), tag)

\* the blocks handled for which the resolver returned nothing
Unresolved == { k \in Handled : trace[k].resolved = NoName }

\* the one python block of the response, handled, nothing resolved
OnePythonBlock ==
    /\ pc = "done"
    /\ Len(code_blocks) = 1
    /\ Strip(code_blocks[1].language) = LangPython
    /\ Unresolved = {1}

GeneratedCode1Py ==
    Append(RootPath, <<"g", "e", "n", "e", "r", "a", "t", "e", "d", "_",
                       "c", "o", "d", "e", "_", "1", ".", "p", "y">>)

EndsWithPercents(code) ==
    RStrip(code) # <<>> /\ RStrip(code)[Len(RStrip(code))] = "%"

\* no % and no whitespace at the end
Tidy(text) == text = <<>> \/ text[Len(text)] \notin Whitespace \cup {"%"}

\* the file that the iteration for block k wrote
FileOf(k) == Resolve(disk, trace[k].file_path).path

\* the block handled last has been written
JustWritten(k) == k = Len(trace) /\ ~trace[k].skipped /\ trace[k].exc = "none"

\* the file of the per-file generation stage
StageFile == Append(RootPath, file_name)

\* C12: the file written for a block whose body ends with a run of %
\* followed only by blank lines does not end with % or with whitespace,
\* both for a block of a generation pass and for the code that
\* generate_code saves with write_file.
C12_NoTrailingPercent ==
    /\ \A k \in 1..Len(trace) :
          (JustWritten(k) /\ EndsWithPercents(code_blocks[k].code)) =>
              Tidy(disk.files[FileOf(k)])
    /\ (pc = "save_file" /\ code_blocks # <<>> /\ EndsWithPercents(generated)) =>
          Tidy(disk.files[StageFile])

\* C13: the file a block leaves on disk holds clean_code of the body of the
\* block, in a generation pass and after the per-file generation stage.
C13_SanitizedContent ==
    /\ \A k \in 1..Len(trace) :
          JustWritten(k) => disk.files[FileOf(k)] = clean_code(code_blocks[k].code)
    /\ (pc = "done" /\ entry = "generate_files" /\ code_blocks # <<>>) =>
          disk.files[StageFile] = clean_code(generated)

\* C13 for the per-file generation stage alone
C13_StageContent ==
    (pc = "done" /\ entry = "generate_files" /\ code_blocks # <<>>) =>
        disk.files[StageFile] = clean_code(generated)

\* the blocks whose joined path was a directory
Collided == { k \in Handled : trace[k].collided }

\* <root>/<filename>/index<ext> for block k
IndexPath(k) ==
    PathJoin(JoinRoot(OutputFolder, trace[k].filename),
             IndexName(GetExtensionForLanguage(Strip(code_blocks[k].language))))

Written == { k \in Handled : trace[k].exc = "none" }

\* no later block was written to the file of block k
LastWriter(k) == k \in Written /\ \A j \in Written : j > k => FileOf(j) # FileOf(k)

\* C15: when several blocks of a pass are written to the same final path,
\* the file holds exactly what was written for the block of the highest
\* ordinal, and nothing of what the earlier blocks left there.
C15_LastWriteWins ==
    \A k \in Written :
        LastWriter(k) => disk.files[FileOf(k)] = clean_code(trace[k].code)

\* two blocks with different bodies were written to the same path
C15_Witness ==
    /\ pc = "done"
    /\ \E j, k \in Written :
          /\ j < k
          /\ FileOf(j) = FileOf(k)
          /\ clean_code(trace[j].code) # clean_code(trace[k].code)
          /\ disk.files[FileOf(k)] = clean_code(trace[k].code)

\* C16: an I/O failure while a block is materialized skips that file only:
\* no exception leaves the pass, and every block whose body is not empty is
\* handled by the end of the pass.
C16_FailureSkipsOneFile ==
    entry \in Variants =>
        /\ pc # "raised"
        /\ pc = "done" =>
              \A k \in 1..Len(code_blocks) :
                  Strip(code_blocks[k].code) # <<>> => k \in Handled

\* the loop is at a block whose body is empty after trimming
AtEmptyBlock ==
    /\ pc = "blocks"
    /\ ordinal < Len(code_blocks)
    /\ Strip(code_blocks[ordinal + 1].code) = <<>>

\* C17: a fenced block with an empty or whitespace-only body is returned by
\* the extractor, and the loop over the blocks passes over it: the step that
\* handles it leaves the filesystem as it was and goes on with the next block.
C17_EmptyBlockWritesNothing ==
    /\ [](FindLit(EmptyBlock, response, 1) # 0 /\ pc \in {"blocks", "done"} =>
             \E k \in 1..Len(code_blocks) : Strip(code_blocks[k].code) = <<>>)
    /\ [][AtEmptyBlock => disk' = disk /\ pc' = "blocks" /\ ordinal' = ordinal + 1]_vars

\* an empty block that the extractor returned has been passed over, after a
\* block that was written
C17_Witness ==
    /\ entry \in Variants
    /\ \E k \in 2..Len(trace) :
          /\ trace[k].skipped
          /\ Strip(code_blocks[k].code) = <<>>
          /\ disk.files # <<>>
          /\ ~trace[k - 1].skipped

\* the tags of a fenced region that may hold the tree diagram
TreeTags ==
    { <<>>, <<"b", "a", "s", "h">>, <<"s", "h", "e", "l", "l">>,
      <<"t", "e", "x", "t">> }

\* the fenced regions of the response whose body begins with the root
\* directory token, by number
TreeRegions ==
    { k \in 1..Len(code_blocks) :
        /\ code_blocks[k].language \in TreeTags
        /\ StartsWith(LStrip(code_blocks[k].code),
                      <<"p", "r", "o", "j", "e", "c", "t", "/">>) }

\* the names that the tree lines of region k give, without the final separator
TreeNames(k) ==
    { FindIter(DirPattern, code_blocks[k].code)[j].group :
        j \in 1..Len(FindIter(DirPattern, code_blocks[k].code)) }

\* project-structure extraction has returned
StructureDone ==
    \/ entry = "workflow" /\ pc \in {"blocks", "done"}
    \/ entry = "agent" /\ pc = "done"

\* C18: after project-structure extraction every directory that a tree line of
\* a fenced region beginning with project/ names exists under the output
\* root; with no such region the extraction changes nothing and raises
\* nothing.
C18_BestEffortStructure ==
    /\ [](StructureDone =>
             \A k \in TreeRegions : \A name \in TreeNames(k) :
                 IsDir(disk, PathJoin(OutputFolder, name)))
    /\ [][pc = "structure" /\ TreeRegions = {} => disk' = disk /\ pc' # "raised"]_vars

\* the two halves of C18 as state predicates
C18_HintDirectoriesExist ==
    StructureDone =>
        \A k \in TreeRegions : \A name \in TreeNames(k) :
            IsDir(disk, PathJoin(OutputFolder, name))

C18_NoRegionNoDirectory ==
    StructureDone /\ TreeRegions = {} =>
        ~IsDir(disk, PathJoin(OutputFolder, <<"b">>))

\* C19: after project-structure extraction every directory that a tree line
\* such as "|-- models/" names holds a file __init__.py.
C19_PackageMarker ==
    StructureDone =>
        \A k \in TreeRegions : \A name \in TreeNames(k) :
            IsDir(disk, PathJoin(OutputFolder, name)) =>
                Status(disk, PathJoin(PathJoin(OutputFolder, name), InitPy)) = "file"

\* the directory names that project-structure extraction takes from a text
HintsOf(text) ==
    { FindIter(DirPattern, text)[j].group : j \in 1..Len(FindIter(DirPattern, text)) }

\* the directory names that project-structure extraction takes from the
\* response of the pass
StructureHints ==
    IF Search(StructurePattern, response).ok
    THEN HintsOf(SubSeq(response, Search(StructurePattern, response).start,
                        Search(StructurePattern, response).end - 1))
    ELSE {}

\* C20: in both entry points, once a file of a code block has been written
\* every directory of the tree diagram is there already.
C20_DirectoriesBeforeBlocks ==
    entry \in Variants /\ Written # {} =>
        \A name \in StructureHints : IsDir(disk, PathJoin(OutputFolder, name))

\* the same in the single-call workflow alone
C20_WorkflowDirectoriesFirst ==
    entry = "workflow" /\ Written # {} =>
        \A name \in StructureHints : IsDir(disk, PathJoin(OutputFolder, name))

\* the blocks of the response whose tag is the language asked for, compared
\* without case
Matching ==
    { k \in 1..Len(code_blocks) :
        Lower(code_blocks[k].language) = Lower(FileLanguage(file_name)) }

\* what generate_code is to return
Expected ==
    IF code_blocks = <<>> THEN response
    ELSE IF Matching = {} THEN code_blocks[1].code
    ELSE code_blocks[Min(Matching)].code

\* generate_code has returned to generate_files
Returned == entry = "generate_files" /\ pc = "save_file"

C30_OrdinalIsPosition ==
    entry \in Variants =>
        /\ \A k \in Handled :
              trace[k].resolved = ExtractFilename(entry, response, k - 1, code_blocks)
        /\ \A k \in Unresolved :
              IsSyntheticName(trace[k].filename, k, code_blocks[k].language)
        /\ \A j, k \in Unresolved : j # k => trace[j].filename # trace[k].filename

\* the only synthetic name of the pass is that of the second block: the
\* first block was passed over or had a name
C30_Witness ==
    /\ entry \in Variants
    /\ pc = "done"
    /\ Unresolved = {2}
    /\ IsSyntheticName(trace[2].filename, 2, code_blocks[2].language)
    /\ trace[1].skipped

----------------------------------------------------------------------------
(* The sanitizer on its own: clean_code applied to a body, and again to    *)
(* what it returned                                                        *)

MaxBody == 4

\* the characters a body is made of
BodyChars == {"a", "%", " ", NL}

Bodies == SeqsUpTo(BodyChars, MaxBody)

InitClean ==
    /\ pc = "raw"
    /\ body \in Bodies
    /\ sanitized = <<>>
    /\ markdown = <<>>
    /\ fmt = NotFormatted
    /\ code_blocks = <<>>
    /\ reextracted = <<>>
    /\ entry = "none"
    /\ response = <<>>
    /\ disk = EmptyFs
    /\ ordinal = 0
    /\ trace = <<>>
    /\ file_name = <<>>
    /\ generated = <<>>
    /\ LaterIdle

\* clean_code(body)
CleanCode ==
    /\ pc = "raw"
    /\ sanitized' = <<clean_code(body)>>
    /\ pc' = "cleaned"
    /\ UNCHANGED <<body, markdown, fmt, code_blocks, reextracted, passVars, stageVars,
                   laterVars>>

\* clean_code of what clean_code returned
CleanCodeAgain ==
    /\ pc = "cleaned"
    /\ sanitized' = Append(sanitized, clean_code(sanitized[1]))
    /\ pc' = "cleaned_again"
    /\ UNCHANGED <<body, markdown, fmt, code_blocks, reextracted, passVars, stageVars,
                   laterVars>>

NextClean == CleanCode \/ CleanCodeAgain

SpecClean == InitClean /\ [][NextClean]_vars

\* C11: the sanitizer is idempotent: clean_code(clean_code(x)) = clean_code(x)
\* for every body x.
C11_Idempotent == pc = "cleaned_again" => sanitized[2] = sanitized[1]

----------------------------------------------------------------------------
(* The staged workflow (langgraph_dev_workflow.py): the compiled graph of  *)
(* create_workflow_graph, and the same stages driven by router             *)

\* the nodes of the graph, in the order of the edges
Stages ==
    <<"analyze_requirements", "create_design", "propose_project_structure",
      "generate_files">>

\* the edges leave START for generate_files by way of create_design
EdgeFrom_SkipStructure(node) ==
    CASE node = "START" -> "analyze_requirements"
      [] node = "analyze_requirements" -> "create_design"
      [] node = "create_design" -> "generate_files"
      [] node = "propose_project_structure" -> "generate_files"
      [] OTHER -> "END"

\* workflow.add_edge: the node that follows a node
EdgeFrom(node) ==
    CASE node = "START" -> "analyze_requirements"
      [] node = "analyze_requirements" -> "create_design"
      [] node = "create_design" -> "propose_project_structure"
      [] node = "propose_project_structure" -> "generate_files"
      [] OTHER -> "END"

\* router(state)
router(current_step) ==
    CASE current_step = "" -> "analyze_requirements"
      [] current_step = "requirements_analyzed" -> "create_design"
      [] current_step = "design_created" -> "propose_project_structure"
      [] current_step = "project_structure_proposed" -> "generate_files"
      [] current_step = "files_generated" -> "verify_dependencies"
      [] current_step = "dependencies_verified" -> "verify_completeness"
      [] current_step = "completeness_verified" -> "create_documentation"
      [] current_step = "documentation_created" -> "END"
      [] OTHER -> "analyze_requirements"

\* what drives the stages: the compiled graph or the router
Drivers == {"compiled_graph", "router"}

\* the node to run next
NextNode == IF entry = "router" THEN router(state.current_step) ELSE EdgeFrom(pc)

\* how many stages a run is followed for
MaxRan == 6

\* the responses of the model to the prompt for one file
GraphDocs ==
    { <<>>, <<"x">>, Join(<<PythonBlock>>, NL), Join(<<SaveThisTo>>, NL),
      Join(<<PlainBlock, PythonBlock>>, NL) }

\* the files that the model proposes as the project structure
GraphFiles == SeqsUpTo(FileNames, 2)

\* the call of the model raised
NoAnswer == <<"raised">>

\* the loop of generate_files over files_to_create, from file k on
RECURSIVE GenerateAll(_, _, _, _)
GenerateAll(fs, files, answers, k) ==
    IF k > Len(files) THEN Ok(fs)
    ELSE IF answers[k] = NoAnswer THEN Raise(fs, "ModelError")
    ELSE LET g == generate_code(fs, answers[k], FileLanguage(files[k]), files[k])
         IN  IF g.exc # "none" THEN Raise(g.fs, g.exc)
             ELSE LET saved == SaveGenerated(g.fs, files[k], g.code)
                  IN  IF saved.exc # "none" THEN saved
                      ELSE GenerateAll(saved.fs, files, answers, k + 1)

\* run_software_dev_workflow: the output folder is made and the initial state
\* is built
InitGraph ==
    /\ pc = "START"
    /\ entry \in Drivers
    /\ state = [current_step |-> "", files |-> <<>>, code_files |-> {}]
    /\ ran = <<>>
    /\ running = 1
    /\ disk = MakeDirsExistOk(EmptyFs, OutputFolder).fs
    /\ markdown = <<>>
    /\ fmt = NotFormatted
    /\ code_blocks = <<>>
    /\ reextracted = <<>>
    /\ response = <<>>
    /\ ordinal = 0
    /\ trace = <<>>
    /\ body = <<>>
    /\ sanitized = <<>>
    /\ file_name = <<>>
    /\ generated = <<>>
    /\ history = <<>>
    /\ messages = <<>>
    /\ passes = <<>>
    /\ env = <<>>
    /\ calls = <<>>
    /\ result = <<>>

\* the run is at a node and the stage is the one to run next
Due(stage) ==
    /\ pc \in {"START"} \cup {Stages[k] : k \in 1..Len(Stages)}
    /\ Len(ran) < MaxRan
    /\ NextNode = stage

graphFrame ==
    <<markdown, fmt, code_blocks, reextracted, entry, response, ordinal, trace,
      cleanVars, stageVars, agentVars, twoVars, hostVars>>

\* analyze_requirements: agent.query returns or raises
AnalyzeRequirements ==
    /\ Due("analyze_requirements")
    /\ ran' = Append(ran, "analyze_requirements")
    /\ \E answered \in BOOLEAN :
          IF answered
          THEN /\ state' = [state EXCEPT !.current_step = "requirements_analyzed"]
               /\ pc' = "analyze_requirements"
          ELSE /\ state' = state
               /\ pc' = "raised"
    /\ UNCHANGED <<disk, graphFrame>>

\* create_design: agent.query returns or raises
CreateDesign ==
    /\ Due("create_design")
    /\ ran' = Append(ran, "create_design")
    /\ \E answered \in BOOLEAN :
          IF answered
          THEN /\ state' = [state EXCEPT !.current_step = "desing_created"]
               /\ pc' = "create_design"
          ELSE /\ state' = state
               /\ pc' = "raised"
    /\ UNCHANGED <<disk, graphFrame>>

\* propose_project_structure: agent.query returns the files or raises
ProposeProjectStructure ==
    /\ Due("propose_project_structure")
    /\ ran' = Append(ran, "propose_project_structure")
    /\ \E answered \in BOOLEAN, files \in GraphFiles :
          IF answered
          THEN /\ state' = [state EXCEPT !.current_step = "project_structure_proposed",
                                         !.files = files]
               /\ pc' = "propose_project_structure"
          ELSE /\ state' = state
               /\ pc' = "raised"
    /\ UNCHANGED <<disk, graphFrame>>

\* generate_files: the agent is constructed, every file is generated and
\* saved; a call that raises ends the stage
GenerateFiles ==
    /\ Due("generate_files")
    /\ ran' = Append(ran, "generate_files")
    /\ \E answers \in [1..Len(state.files) -> GraphDocs \cup {NoAnswer}] :
          \E r \in {GenerateAll(disk, state.files, answers, 1)} :
              /\ disk' = r.fs
              /\ response' = answers
              /\ state' = IF r.exc = "none"
                          THEN [state EXCEPT !.current_step = "files_generated",
                                             !.code_files =
                                                 {state.files[k] : k \in 1..Len(state.files)}]
                          ELSE state
              /\ pc' = After(r.exc, "generate_files")
    /\ UNCHANGED <<markdown, fmt, code_blocks, reextracted, entry, ordinal, trace,
                   cleanVars, stageVars, agentVars, twoVars, hostVars>>

\* the run leaves the stages: for END, or for a node that is not in the graph
Leave ==
    /\ pc \in {Stages[k] : k \in 1..Len(Stages)}
    /\ NextNode \notin {Stages[k] : k \in 1..Len(Stages)}
    /\ pc' = NextNode
    /\ UNCHANGED <<state, ran, disk, graphFrame>>

\* run_software_dev_workflow: workflow.invoke raised, the task is given to
\* one query of a new agent
FallBack ==
    /\ pc = "raised"
    /\ entry = "compiled_graph"
    /\ pc' = "fell_back"
    /\ UNCHANGED <<state, ran, disk, graphFrame>>

NextGraph ==
    \/ AnalyzeRequirements
    \/ CreateDesign
    \/ ProposeProjectStructure
    \/ GenerateFiles
    \/ Leave
    \/ FallBack

\* a step of the run is possible
CanStep ==
    \/ \E k \in 1..Len(Stages) : Due(Stages[k])
    \/ pc \in {Stages[k] : k \in 1..Len(Stages)} /\
          NextNode \notin {Stages[k] : k \in 1..Len(Stages)}
    \/ pc = "raised" /\ entry = "compiled_graph"

\* the run moves on from where it stands
Advance ==
    /\ CanStep
    /\ pc' \in {"raised", "fell_back", "END"} \cup {Stages[k] : k \in 1..Len(Stages)}
    /\ pc' # pc

\* a stage that is due is run and returns or raises: the run does not stay
\* at a node while a step is possible
SpecGraph == InitGraph /\ [][NextGraph]_vars /\ WF_pc(Advance)

\* the first sequence is the beginning of the second
StartsSeq(short, long) ==
    /\ Len(short) <= Len(long)
    /\ SubSeq(long, 1, Len(short)) = short

\* the run of the compiled graph has ended: at END, or with the fallback
\* after a stage raised
RunOver == pc \in {"END", "fell_back"}

C26_RouterVisitsInOrder ==
    entry = "router" =>
        /\ StartsSeq(ran, Stages)
        /\ pc \in {"START", "END", "raised"} \cup {Stages[k] : k \in 1..Len(Stages)}

----------------------------------------------------------------------------
(* The conversation history of one agent (agent.py): query, clear_history  *)
(* and generate_code                                                       *)

\* how many entries of history the agent is followed for
MaxHistory == 4

\* what the user asks and what the model answers
Inputs == {<<"a">>, <<"b">>}

Answers == {<<"x">>, Join(<<PythonBlock>>, NL)}

\* the file names given to generate_code; the empty one stands for None
GenerateNames == {<<>>, <<"a", "p", "p", ".", "p", "y">>}

\* the message is put in front of the history
add_to_history_Prepend(log, role, content) ==
    <<[role |-> role, content |-> content]>> \o log

\* add_to_history(role, content)
add_to_history(log, role, content) == Append(log, [role |-> role, content |-> content])

\* the messages for the model: the system prompt, then the entries of the
\* history whose role is human or assistant
ToMessages(log) ==
    <<[role |-> "system", content |-> <<>>]>> \o
        SelectSeq(log, LAMBDA m : m.role \in {"human", "assistant"})

\* query: the history once the call of the model has returned or raised
HistoryAfterQuery(log, user_input, answer) ==
    IF answer = NoAnswer
    THEN add_to_history(log, "human", user_input)
    ELSE add_to_history(add_to_history(log, "human", user_input), "assistant", answer)

\* the prompt and the response are added to the history as query adds them
HistoryAfterGenerate_Logged(log, prompt, answer) ==
    HistoryAfterQuery(log, prompt, answer)

\* _query_code_generation: the history is read and not written
HistoryAfterGenerate(log, prompt, answer) == log

\* generate_code once the model has answered: the file is written when a
\* file name is given
GenerateWith(fs, answer, filename) ==
    IF filename = <<>>
    THEN Ok(fs)
    ELSE \* the language asked for is python
         [fs |-> generate_code(fs, answer, <<"p", "y", "t", "h", "o", "n">>, filename).fs,
          exc |-> generate_code(fs, answer, <<"p", "y", "t", "h", "o", "n">>, filename).exc]

\* the agent is constructed with an output folder
InitAgent ==
    /\ pc = "constructed"
    /\ history = <<>>
    /\ messages = <<>>
    /\ running = 1
    /\ disk = ensure_directory(EmptyFs, OutputFolder).fs
    /\ markdown = <<>>
    /\ fmt = NotFormatted
    /\ code_blocks = <<>>
    /\ reextracted = <<>>
    /\ entry = "none"
    /\ response = <<>>
    /\ ordinal = 0
    /\ trace = <<>>
    /\ body = <<>>
    /\ sanitized = <<>>
    /\ file_name = <<>>
    /\ generated = <<>>
    /\ state = <<>>
    /\ ran = <<>>
    /\ passes = <<>>
    /\ env = <<>>
    /\ calls = <<>>
    /\ result = <<>>

agentFrame ==
    <<markdown, fmt, code_blocks, reextracted, entry, response, ordinal, trace,
      cleanVars, stageVars, graphVars, twoVars, hostVars>>

\* query(user_input): the input is added, the model is called with the
\* history, and its response is added when it returns
Query ==
    /\ Len(history) + 2 <= MaxHistory
    /\ \E user_input \in Inputs, answer \in Answers \cup {NoAnswer} :
          /\ messages' = ToMessages(add_to_history(history, "human", user_input))
          /\ history' = HistoryAfterQuery(history, user_input, answer)
          /\ pc' = IF answer = NoAnswer THEN "query_raised" ELSE "query_returned"
    /\ UNCHANGED <<disk, agentFrame>>

\* clear_history()
ClearHistory ==
    /\ history' = <<>>
    /\ pc' = "cleared"
    /\ UNCHANGED <<messages, disk, agentFrame>>

\* generate_code(prompt, language, filename): the model is called through
\* _query_code_generation
GenerateCodeCall ==
    /\ \E prompt \in Inputs, answer \in Answers \cup {NoAnswer}, filename \in GenerateNames :
          /\ messages' = Append(ToMessages(history), [role |-> "human", content |-> prompt])
          /\ history' = HistoryAfterGenerate(history, prompt, answer)
          /\ \E r \in {IF answer = NoAnswer THEN Raise(disk, "ModelError")
                       ELSE GenerateWith(disk, answer, filename)} :
                /\ disk' = r.fs
                /\ pc' = IF r.exc = "none" THEN "generate_returned" ELSE "generate_raised"
    /\ UNCHANGED agentFrame

NextAgent ==
    \/ Query
    \/ ClearHistory
    \/ GenerateCodeCall

SpecAgent == InitAgent /\ [][NextAgent]_vars

\* C22: the history is an append-only log with a reset: a query leaves the
\* earlier entries as they were and in place and adds at the end the human
\* input and then, once the model has answered, the assistant response;
\* entries are removed by clear_history only, which leaves the history empty.
C22_AppendOnlyLog ==
    [][/\ pc' = "cleared" => history' = <<>>
       /\ pc' # "cleared" => StartsSeq(history, history')
       /\ pc' = "query_returned" =>
             /\ Len(history') = Len(history) + 2
             /\ history'[Len(history) + 1].role = "human"
             /\ history'[Len(history) + 2].role = "assistant"
             /\ messages'[Len(messages')] = history'[Len(history) + 1]
       /\ pc' = "query_raised" =>
             /\ Len(history') = Len(history) + 1
             /\ history'[Len(history) + 1].role = "human"]_vars

\* a second query has returned and the first two entries are still there
C22_Witness ==
    /\ pc = "query_returned"
    /\ Len(history) = 4
    /\ history[1].role = "human"
    /\ history[2].role = "assistant"
    /\ history[3].content # history[1].content

\* C24: a call of generate_code leaves the history as it was, whether or not
\* it writes a file, and sends the model the history followed by the prompt.
C24_GenerateKeepsHistory ==
    [][pc' \in {"generate_returned", "generate_raised"} =>
          /\ history' = history
          /\ SubSeq(messages', 2, Len(messages') - 1) = history
          /\ messages'[Len(messages')].role = "human"]_vars

\* generate_code has written a file while the history holds a turn
C24_Witness ==
    /\ pc = "generate_returned"
    /\ Len(history) >= 2
    /\ Len(messages) = Len(history) + 2
    /\ \E path \in DOMAIN disk.files : UnderRoot(path)

\* C29: the history consists of complete turns: its length is even, and the
\* entries are human and assistant in turn.
C29_CompleteTurns ==
    /\ Len(history) % 2 = 0
    /\ \A k \in 1..Len(history) :
          history[k].role = IF k % 2 = 1 THEN "human" ELSE "assistant"

----------------------------------------------------------------------------
(* run_in_docker (agent/utils/docker_utils.py)                             *)

\* what the host and the Docker daemon answer to one call of run_in_docker:
\* whether the project directory is there, and how docker.from_env,
\* images.get, containers.run, container.wait, container.logs and
\* container.remove end
DockerAnswers ==
    [isdir : BOOLEAN,
     from_env : {"ok", "DockerException"},
     get : {"ok", "ImageNotFound", "APIError"},
     run : {"ok", "ContainerError", "APIError", "Exception"},
     wait : {"StatusCode 0", "StatusCode 1", "APIError", "Exception"},
     logs : {"ok", "APIError", "Exception"},
     remove : {"ok", "NotFound", "Exception"}]

\* the locals of run_in_docker before the directory is looked at
DockerLocals ==
    [exit_code |-> -1, stdout |-> "", stderr |-> "", container |-> FALSE]

\* the except clauses of run_in_docker: the exit code and stderr that an
\* exception leaves
Handled_ContainerError(locals) ==
    [locals EXCEPT !.exit_code = 2, !.stderr = "Docker ContainerError"]

Handled_APIError(locals) ==
    [locals EXCEPT !.exit_code = -1, !.stderr = "Docker APIError"]

Handled_Exception(locals) ==
    [locals EXCEPT !.exit_code = -1, !.stderr = "Unexpected Error"]

\* result.get('StatusCode', -1)
StatusCode(waited) == IF waited = "StatusCode 0" THEN 0 ELSE 1

\* the except clause that an exception raised in the try block reaches
Handle(locals, exception) ==
    CASE exception = "ContainerError" -> Handled_ContainerError(locals)
      [] exception \in {"APIError", "ImageNotFound"} -> Handled_APIError(locals)
      [] OTHER -> Handled_Exception(locals)

InitDocker ==
    /\ pc = "called"
    /\ env \in DockerAnswers
    /\ calls = <<>>
    /\ result = DockerLocals
    /\ markdown = <<>>
    /\ fmt = NotFormatted
    /\ code_blocks = <<>>
    /\ reextracted = <<>>
    /\ entry = "run_in_docker"
    /\ response = <<>>
    /\ disk = EmptyFs
    /\ ordinal = 0
    /\ trace = <<>>
    /\ body = <<>>
    /\ sanitized = <<>>
    /\ file_name = <<>>
    /\ generated = <<>>
    /\ history = <<>>
    /\ messages = <<>>
    /\ state = <<>>
    /\ ran = <<>>
    /\ running = 1
    /\ passes = <<>>

hostFrame ==
    <<markdown, fmt, code_blocks, reextracted, entry, response, disk, ordinal, trace,
      cleanVars, stageVars, agentVars, graphVars, twoVars>>

\* the directory is looked at, the client is made and the image is looked up
ImagesGet ==
    /\ pc = "called"
    /\ entry = "run_in_docker"
    /\ IF ~env.isdir
       THEN /\ pc' = "returned"
            /\ result' = [result EXCEPT !.stderr = "Error: Host project directory"]
            /\ calls' = calls
       ELSE IF env.from_env # "ok"
       THEN /\ pc' = "finally"
            /\ result' = Handle(result, env.from_env)
            /\ calls' = Append(calls, "from_env")
       ELSE IF env.get = "ImageNotFound"
       THEN /\ pc' = "finally"
            /\ result' = [result EXCEPT !.stderr = "Error: Docker image"]
            /\ calls' = calls \o <<"from_env", "images.get">>
       ELSE IF env.get # "ok"
       THEN /\ pc' = "finally"
            /\ result' = Handle(result, env.get)
            /\ calls' = calls \o <<"from_env", "images.get">>
       ELSE /\ pc' = "run"
            /\ result' = result
            /\ calls' = calls \o <<"from_env", "images.get">>
    /\ UNCHANGED <<env, hostFrame>>

\* client.containers.run(..., detach=True)
ContainersRun ==
    /\ pc = "run"
    /\ calls' = Append(calls, "containers.run")
    /\ IF env.run = "ok"
       THEN /\ result' = [result EXCEPT !.container = TRUE]
            /\ pc' = "wait"
       ELSE /\ result' = Handle(result, env.run)
            /\ pc' = "finally"
    /\ UNCHANGED <<env, hostFrame>>

\* the wait for the container ends some other way than with a status and
\* the exception is not caught
ContainerWait_Raises ==
    /\ pc = "wait"
    /\ calls' = Append(calls, "container.wait")
    /\ IF env.wait \in {"StatusCode 0", "StatusCode 1"}
       THEN /\ result' = [result EXCEPT !.exit_code = StatusCode(env.wait)]
            /\ pc' = "logs"
       ELSE /\ result' = result
            /\ pc' = "raised"
    /\ UNCHANGED <<env, hostFrame>>

\* container.wait(timeout=timeout_seconds)
ContainerWait ==
    /\ pc = "wait"
    /\ calls' = Append(calls, "container.wait")
    /\ IF env.wait \in {"StatusCode 0", "StatusCode 1"}
       THEN /\ result' = [result EXCEPT !.exit_code = StatusCode(env.wait)]
            /\ pc' = "logs"
       ELSE /\ result' = Handle(result, env.wait)
            /\ pc' = "finally"
    /\ UNCHANGED <<env, hostFrame>>

\* container.logs, for stdout and for stderr
ContainerLogs ==
    /\ pc = "logs"
    /\ calls' = Append(calls, "container.logs")
    /\ result' = IF env.logs = "ok"
                 THEN [result EXCEPT !.stdout = "stdout", !.stderr = "stderr"]
                 ELSE Handle(result, env.logs)
    /\ pc' = "finally"
    /\ UNCHANGED <<env, hostFrame>>

\* the finally clause: the container, if there is one, is removed, and what
\* the removal raises is passed over; then the function returns
FinallyRemove ==
    /\ pc = "finally"
    /\ calls' = IF result.container THEN Append(calls, "container.remove") ELSE calls
    /\ pc' = "returned"
    /\ UNCHANGED <<env, result, hostFrame>>

NextDocker ==
    \/ ImagesGet
    \/ ContainersRun
    \/ ContainerWait
    \/ ContainerLogs
    \/ FinallyRemove

SpecDocker == InitDocker /\ [][NextDocker]_vars

\* operation op is among the calls made
Called(op) == \E k \in 1..Len(calls) : calls[k] = op

\* an exception of the Docker API or an unexpected one has been raised in
\* the try block
DockerError ==
    \/ Called("from_env") /\ env.from_env # "ok"
    \/ Called("images.get") /\ env.get = "APIError"
    \/ Called("containers.run") /\ env.run \in {"APIError", "Exception"}
    \/ Called("container.wait") /\ env.wait \in {"APIError", "Exception"}
    \/ Called("container.logs") /\ env.logs # "ok"

\* C28: run_in_docker never raises; when it returns, a container that was
\* started has had its removal attempted as the last operation; the exit
\* code is -1 when the directory is missing, the image is missing or an API
\* or unexpected error occurred, and with the directory or the image missing
\* no container is started.
C28_ContainerRemoved ==
    /\ pc # "raised"
    /\ pc = "returned" =>
          /\ Called("containers.run") /\ env.run = "ok" =>
                calls[Len(calls)] = "container.remove"
          /\ ~env.isdir => result.exit_code = -1 /\ calls = <<>>
          /\ Called("images.get") /\ env.get = "ImageNotFound" =>
                result.exit_code = -1 /\ ~Called("containers.run")
          /\ DockerError => result.exit_code = -1

\* the wait for a started container has timed out, the removal has raised
\* too, and run_in_docker has returned -1
C28_Witness ==
    /\ pc = "returned"
    /\ env.wait = "Exception"
    /\ env.remove = "Exception"
    /\ calls = <<"from_env", "images.get", "containers.run", "container.wait",
                 "container.remove">>
    /\ result.exit_code = -1

----------------------------------------------------------------------------
(* python_runner_tester (langgraph_dev_workflow.py)                        *)

\* what run_in_docker prints as the stdout of pytest
TestOutputs ==
    { <<"2", " ", "p", "a", "s", "s", "e", "d">>,
      <<"1", " ", "f", "a", "i", "l", "e", "d">>,
      <<"E", "R", "R", "O", "R">>,
      <<>> }

\* what the tester finds: whether host_project_dir is given, whether it and
\* requirements.txt exist, and what run_in_docker returns for pip and for
\* pytest
TesterAnswers ==
    [folder : BOOLEAN,
     exists : BOOLEAN,
     requirements : BOOLEAN,
     pip : {0, 1, -1},
     pytest : {0, 1, 2, 5, -1},
     stdout : TestOutputs]

\* Step 4: the summary of the exit code and the stdout of pytest
Summary(exit_code, stdout) ==
    IF exit_code = 0
    THEN IF Contains(Lower(stdout), <<"f", "a", "i", "l", "e", "d">>) \/
            Contains(Lower(stdout), <<"e", "r", "r", "o", "r">>)
         THEN "pass_with_failures"
         ELSE "pass"
    ELSE IF exit_code = 1 THEN "fail"
    ELSE IF exit_code = 5 THEN "no_tests_found"
    ELSE "execution_error"

\* the tests pass whenever pytest exits with 0
BuildStatus_ExitCodeOnly(exit_code, stdout) ==
    IF exit_code = 0 THEN "Tests Passed" ELSE "Testing Failed"

\* the build status of the summary
BuildStatus(exit_code, stdout) ==
    IF Summary(exit_code, stdout) = "pass" THEN "Tests Passed" ELSE "Testing Failed"

InitTester ==
    /\ pc = "called"
    /\ env \in TesterAnswers
    /\ calls = <<>>
    /\ result = <<>>
    /\ markdown = <<>>
    /\ fmt = NotFormatted
    /\ code_blocks = <<>>
    /\ reextracted = <<>>
    /\ entry = "python_runner_tester"
    /\ response = <<>>
    /\ disk = EmptyFs
    /\ ordinal = 0
    /\ trace = <<>>
    /\ body = <<>>
    /\ sanitized = <<>>
    /\ file_name = <<>>
    /\ generated = <<>>
    /\ history = <<>>
    /\ messages = <<>>
    /\ state = <<>>
    /\ ran = <<>>
    /\ running = 1
    /\ passes = <<>>

\* the argument and Step 1: host_project_dir is given and exists
FindProject ==
    /\ pc = "called"
    /\ entry = "python_runner_tester"
    /\ IF ~env.folder
       THEN /\ pc' = "returned"
            /\ result' = [build_status |-> "Testing Failed",
                          test_results |-> "Output folder not specified"]
       ELSE IF ~env.exists
       THEN /\ pc' = "returned"
            /\ result' = [build_status |-> "Testing Failed",
                          test_results |-> "Project directory missing"]
       ELSE /\ pc' = "install"
            /\ result' = result
    /\ UNCHANGED <<env, calls, hostFrame>>

\* Step 2: pip install -r requirements.txt when the file exists
InstallDependencies ==
    /\ pc = "install"
    /\ IF ~env.requirements
       THEN /\ pc' = "test"
            /\ calls' = calls
            /\ result' = result
       ELSE /\ calls' = Append(calls, "pip")
            /\ IF env.pip # 0
               THEN /\ pc' = "returned"
                    /\ result' = [build_status |-> "Testing Failed",
                                  test_results |-> "dependency_error"]
               ELSE /\ pc' = "test"
                    /\ result' = result
    /\ UNCHANGED <<env, hostFrame>>

\* Steps 3 and 4: pytest is run and its result is parsed
RunTests ==
    /\ pc = "test"
    /\ calls' = Append(calls, "pytest")
    /\ result' = [build_status |-> BuildStatus(env.pytest, env.stdout),
                  test_results |-> Summary(env.pytest, env.stdout)]
    /\ pc' = "returned"
    /\ UNCHANGED <<env, hostFrame>>

NextTester ==
    \/ FindProject
    \/ InstallDependencies
    \/ RunTests

SpecTester == InitTester /\ [][NextTester]_vars

\* C27: the tester returns "Tests Passed" only when pytest was run and
\* exited with 0 with neither "failed" nor "error" in its stdout; pytest is
\* run only with the folder given and found and, with a requirements.txt,
\* after pip has exited with 0; every other outcome returns "Testing Failed".
C27_TestsPassedOnlyWhenRun ==
    /\ Called("pytest") =>
          /\ env.folder /\ env.exists
          /\ env.requirements => calls = <<"pip", "pytest">> /\ env.pip = 0
    /\ pc = "returned" =>
          /\ result.build_status \in {"Tests Passed", "Testing Failed"}
          /\ result.build_status = "Tests Passed" =>
                /\ calls[Len(calls)] = "pytest"
                /\ env.pytest = 0
                /\ ~Contains(Lower(env.stdout), <<"f", "a", "i", "l", "e", "d">>)
                /\ ~Contains(Lower(env.stdout), <<"e", "r", "r", "o", "r">>)
          /\ (\/ ~env.folder
              \/ ~env.exists
              \/ env.requirements /\ env.pip # 0
              \/ env.pytest # 0) => result.build_status = "Testing Failed"

\* pip and pytest have both exited with 0 and the tests have passed
C27_Witness ==
    /\ pc = "returned"
    /\ calls = <<"pip", "pytest">>
    /\ result.build_status = "Tests Passed"
    /\ env.stdout = <<"2", " ", "p", "a", "s", "s", "e", "d">>

----------------------------------------------------------------------------
(* Two generation passes with distinct output roots, run side by side by a *)
(* host: each is _save_code_blocks_to_files (agent.py) of its own agent.   *)
(* A step is the construction of the agent (the root is ensured) or one    *)
(* iteration of the loop over the blocks; the host may switch passes       *)
(* between any two steps.                                                  *)

\* the resolved paths of the two output roots
RootPaths == << RootPath, << <<"w">>, <<"o", "2">> >> >>

\* "Filename: ../o2/b.py" announcing an untagged block
FilenameSibling ==
    <<"F", "i", "l", "e", "n", "a", "m", "e", ":", " ", ".", ".", "/", "o",
      "2", "/", "b", ".", "p", "y", NL, BQ, BQ, BQ, NL, "y", NL, BQ, BQ, BQ>>

TwoSections == { FilenameHtml, FilenameSibling, PythonBlock, FilenameInDir }

MaxTwoSections == 2

TwoDocs == { Join(ss, NL) : ss \in SeqsUpTo(TwoSections, MaxTwoSections) }

\* the loop over the blocks from ordinal i on a filesystem of its own, up
\* to its end or to the exception that ends it
RECURSIVE LoopAlone(_, _, _, _)
LoopAlone(fs, content, blocks, i) ==
    IF i >= Len(blocks) THEN fs
    ELSE LET r == SaveBlock(fs, "agent", content, blocks, i)
         IN  IF r.exc # "none" THEN r.fs
             ELSE LoopAlone(r.fs, content, blocks, i + 1)

\* the pass run alone on the filesystem before any pass
RunAlone(content) ==
    LET r == ensure_directory(EmptyFs, OutputFolder)
    IN  IF r.exc # "none" THEN r.fs
        ELSE LoopAlone(r.fs, content, extract_code_from_markdown(content), 0)

NotStarted ==
    [pc |-> "ready", response |-> <<>>, code_blocks |-> <<>>, ordinal |-> 0,
     alone |-> EmptyFs]

InitTwo ==
    /\ pc = "two"
    /\ running \in {1, 2}
    /\ passes = <<NotStarted, NotStarted>>
    /\ disk = EmptyFs
    /\ entry = "agent"
    /\ markdown = <<>>
    /\ fmt = NotFormatted
    /\ code_blocks = <<>>
    /\ reextracted = <<>>
    /\ response = <<>>
    /\ ordinal = 0
    /\ trace = <<>>
    /\ body = <<>>
    /\ sanitized = <<>>
    /\ file_name = <<>>
    /\ generated = <<>>
    /\ history = <<>>
    /\ messages = <<>>
    /\ state = <<>>
    /\ ran = <<>>
    /\ env = <<>>
    /\ calls = <<>>
    /\ result = <<>>

twoFrame ==
    <<pc, markdown, fmt, code_blocks, reextracted, entry, response, ordinal, trace,
      cleanVars, stageVars, agentVars, graphVars, hostVars>>

\* the host gives the next step to the other pass
Switch ==
    /\ pc = "two"
    /\ running' = 3 - running
    /\ UNCHANGED <<passes, disk, twoFrame>>

\* the running pass starts: its agent ensures its output root, the response
\* arrives and the blocks are extracted
StartOne ==
    /\ pc = "two"
    /\ passes[running].pc = "ready"
    /\ \E d \in TwoDocs, r \in {ensure_directory(disk, OutputFolder)} :
          /\ disk' = r.fs
          /\ passes' = [passes EXCEPT ![running] =
                           [pc |-> After(r.exc, "blocks"),
                            response |-> d,
                            code_blocks |-> extract_code_from_markdown(d),
                            ordinal |-> 0,
                            alone |-> RunAlone(d)]]
    /\ UNCHANGED <<running, twoFrame>>

\* one iteration of the loop over the blocks of the running pass
SaveOne ==
    /\ pc = "two"
    /\ passes[running].pc = "blocks"
    /\ passes[running].ordinal < Len(passes[running].code_blocks)
    /\ \E r \in {SaveBlock(disk, "agent", passes[running].response,
                          passes[running].code_blocks, passes[running].ordinal)} :
          /\ disk' = r.fs
          /\ passes' = [passes EXCEPT ![running].pc = After(r.exc, "blocks"),
                                      ![running].ordinal = @ + 1]
    /\ UNCHANGED <<running, twoFrame>>

\* the loop over the blocks of the running pass ends
EndOne ==
    /\ pc = "two"
    /\ passes[running].pc = "blocks"
    /\ passes[running].ordinal = Len(passes[running].code_blocks)
    /\ passes' = [passes EXCEPT ![running].pc = "done"]
    /\ UNCHANGED <<running, disk, twoFrame>>

NextTwo ==
    \/ Switch
    \/ StartOne
    \/ SaveOne
    \/ EndOne

SpecTwo == InitTwo /\ [][NextTwo]_vars

\* the resolved path lies in the output root of pass p or below it
UnderFolder(p, path) ==
    Len(path) >= Len(RootPaths[p]) /\ SubSeq(path, 1, Len(RootPaths[p])) = RootPaths[p]

\* what a filesystem holds under the output root of pass p
Left(fs, p) ==
    [dirs |-> {d \in fs.dirs : UnderFolder(p, d)},
     files |-> [f \in {g \in DOMAIN fs.files : UnderFolder(p, g)} |-> fs.files[f]]]

\* C23: when both passes have ended, under every interleaving of their
\* steps, the root of each pass holds exactly the directories, files and
\* contents that the pass leaves there when run alone, and no pass has made
\* anything under the root of the other.
C23_PassesIsolated ==
    (\A p \in {1, 2} : passes[p].pc \in {"done", "raised"}) =>
        \A p \in {1, 2} :
            /\ Left(disk, p) = Left(passes[p].alone, p)
            /\ \A path \in passes[p].alone.made : ~UnderFolder(3 - p, path)

====
